---- MODULE Spec2Model ----
(***************************************************************************)
(* The native-foundation engine of guerillaglass as a state machine: the   *)
(* session State of src/engines/native-foundation/src/lib.rs, one action   *)
(* per protocol method, and the environment the handlers read (wall clock, *)
(* monotonic capture clock, transcript files, GG_AGENT_ALLOW_FORCE).       *)
(*                                                                         *)
(* Encodings.                                                              *)
(*   Option<T>      None is <<>>, Some(v) is <<v>>.                        *)
(*   params         a record with one Option field per key the handlers    *)
(*                  read: the value of params.get(key).and_then(as_type).  *)
(*   wall clock     [seconds, subsec]; unix_timestamp() is .seconds, and   *)
(*                  unix_timestamp_nanos() is the pair <<seconds, subsec>> *)
(*                  (seconds * 10^9 + subsec is injective in the pair).    *)
(*   formatted ids  format!("preflight-{}", nanos) is <<"preflight", s, n>>*)
(*                  format!("agent-{}-{}", k, nanos) is <<"agent", k, s, n>>*)
(*                  and the empty string of a token or job id is <<>>.     *)
(*   text           a sequence of lexemes: maximal alphanumeric runs and   *)
(*                  the separators between them.                           *)
(*   f64 seconds    integers (whole seconds); score is <<covered, 4>>.     *)
(***************************************************************************)
EXTENDS Integers, Sequences, FiniteSets, TLC

VARIABLES
    state,          \* the session (struct State)
    wall,           \* the system wall clock, read by OffsetDateTime::now_utc
    monotonic,      \* seconds elapsed on the CaptureClock
    files,          \* transcript files by path
    recents_index,  \* the persisted recents index file
    allow_force,    \* GG_AGENT_ALLOW_FORCE is "1"
    pc,             \* run_engine: "start", "read" (next line), "write" (answer)
    request,        \* the request being answered
    response,       \* the response to write for it
    before,         \* the session as it was when the request was read
    issued,         \* the tokens agent.preflight has returned, in order
    redeemed,       \* the stored tokens agent.run has been given, in order
    edited,         \* a run, a recording stop or an apply succeeded since the last open or save
    tracked,        \* per token: the file it was issued for, and whether the project has differed since
    linux,          \* the linux-native engine, when it runs: its State and last answer
    windows,        \* the windows-native engine, when it runs: State, index file, last answer
    stdin,          \* the lines of an input given in advance, and the next to read
    stdout          \* the responses written for those lines, in order

vars ==
    <<state, wall, monotonic, files, recents_index, allow_force, pc, request,
      response, before, issued, redeemed, edited, tracked, linux, windows,
      stdin, stdout>>

(***************************************************************************)
(* Program constants.                                                      *)
(***************************************************************************)
MAX_RECENT_PROJECTS == 20
DEFAULT_RECENTS_LIMIT == 10
PREFLIGHT_TOKEN_TTL_SECONDS == 60

(***************************************************************************)
(* Bounds of the model.                                                    *)
(***************************************************************************)
\* wall-clock seconds are 0 and TTL .. TTL + MaxLate
MaxLate == 1
\* sub-second part of the wall clock (nanoseconds within the second)
MaxSubsec == 0
\* agent.preflight calls that issue a token
MaxIssued == 2
\* agent.run calls that store a record
MaxRuns == 2

(***************************************************************************)
(* Option and map helpers.                                                 *)
(***************************************************************************)
None == <<>>
Some(v) == <<v>>
IsSome(o) == Len(o) = 1
UnwrapOr(o, d) == IF Len(o) = 1 THEN o[1] ELSE d

EmptyMap == [k \in {} |-> k]
MapInsert(m, key, value) ==
    [k \in DOMAIN m \cup {key} |-> IF k = key THEN value ELSE m[k]]
MapRemove(m, key) == [k \in DOMAIN m \ {key} |-> m[k]]

EmptyString == <<>>

(***************************************************************************)
(* Wall clock (OffsetDateTime::now_utc) and formatting.                    *)
(***************************************************************************)
WallSeconds ==
    {0} \cup {PREFLIGHT_TOKEN_TTL_SECONDS + j : j \in 0..MaxLate}
WallInstants == [seconds : WallSeconds, subsec : 0..MaxSubsec]

now_unix_seconds(now) == now.seconds
unix_timestamp_nanos(now) == <<now.seconds, now.subsec>>
now_iso8601(now) == <<"rfc3339", now.seconds, now.subsec>>

(***************************************************************************)
(* RunningDuration (protocol-rust/src/clock.rs).                           *)
(***************************************************************************)
Max(a, b) == IF a >= b THEN a ELSE b

RunningDurationDefault == [accumulated_seconds |-> 0, started_at_seconds |-> None]

\* a start that takes the clock again while running
RunningDurationRestart(d, clock_now) ==
    [d EXCEPT !.started_at_seconds = Some(clock_now)]

RunningDurationStart(d, clock_now) ==
    IF d.started_at_seconds = None
    THEN [d EXCEPT !.started_at_seconds = Some(clock_now)]
    ELSE d

\* a stop that keeps the last interval alone
RunningDurationStopLast(d, clock_now) ==
    IF d.started_at_seconds /= None
    THEN [accumulated_seconds |-> Max(clock_now - d.started_at_seconds[1], 0),
          started_at_seconds |-> None]
    ELSE d

RunningDurationStop(d, clock_now) ==
    IF d.started_at_seconds /= None
    THEN [accumulated_seconds |->
              d.accumulated_seconds + Max(clock_now - d.started_at_seconds[1], 0),
          started_at_seconds |-> None]
    ELSE d

RunningDurationCurrent(d, clock_now) ==
    IF d.started_at_seconds /= None
    THEN d.accumulated_seconds + Max(clock_now - d.started_at_seconds[1], 0)
    ELSE d.accumulated_seconds

current_duration(s, clock_now) == RunningDurationCurrent(s.recording_duration, clock_now)

(***************************************************************************)
(* Request parameters.                                                     *)
(***************************************************************************)
NoParams ==
    [preflightToken |-> None, runtimeBudgetMinutes |-> None,
     transcriptionProvider |-> None, importedTranscriptPath |-> None,
     force |-> None, jobId |-> None, destructiveIntent |-> None,
     projectPath |-> None, autoZoom |-> None, trackInputEvents |-> None,
     windowId |-> None, outputURL |-> None, presetId |-> None, limit |-> None]

get_string(params, key) == params[key]

transcription_provider(params) ==
    IF UnwrapOr(params.transcriptionProvider, "none") = "imported_transcript"
    THEN "imported_transcript"
    ELSE "none"

(***************************************************************************)
(* Imported transcripts.  A file holds None (unreadable or not JSON) or a  *)
(* payload [segments, words], each an Option of a list of entries          *)
(* [text, word, start, end] whose fields are Options.                      *)
(***************************************************************************)
Whitespace == {" "}
Separators == {" ", "!", "-"}

to_lowercase(lexeme) ==
    CASE lexeme = "Hook" -> "hook"
      [] lexeme = "Action" -> "action"
      [] lexeme = "Payoff" -> "payoff"
      [] lexeme = "Takeaway" -> "takeaway"
      [] OTHER -> lexeme

RECURSIVE TrimStart(_)
TrimStart(text) ==
    IF text /= <<>> /\ Head(text) \in Whitespace THEN TrimStart(Tail(text)) ELSE text

RECURSIVE TrimEnd(_)
TrimEnd(text) ==
    IF text /= <<>> /\ text[Len(text)] \in Whitespace
    THEN TrimEnd(SubSeq(text, 1, Len(text) - 1))
    ELSE text

Trim(text) == TrimEnd(TrimStart(text))

\* [a, b, ...].join(" ")
RECURSIVE Join(_)
Join(texts) ==
    IF texts = <<>> THEN <<>>
    ELSE IF Len(texts) = 1 THEN texts[1]
    ELSE texts[1] \o <<" ">> \o Join(Tail(texts))

imported_transcript_payload(fs, path) ==
    IF path = "" THEN None
    ELSE IF path \in DOMAIN fs THEN fs[path]
    ELSE None

\* Some(text) when the entry is usable, None when filter_map drops it
normalized_segment(entry) ==
    IF entry.text = None \/ entry.start = None \/ entry.end = None THEN None
    ELSE LET text == Trim(entry.text[1])
             start == entry.start[1]
             end == entry.end[1]
         IN  IF text = <<>> \/ start < 0 \/ end <= start THEN None ELSE Some(text)

normalized_word(entry) ==
    IF entry.word = None \/ entry.start = None \/ entry.end = None THEN None
    ELSE LET word == Trim(entry.word[1])
             start == entry.start[1]
             end == entry.end[1]
         IN  IF word = <<>> \/ start < 0 \/ end <= start THEN None ELSE Some(word)

RECURSIVE FilterMapSegments(_)
FilterMapSegments(items) ==
    IF items = <<>> THEN <<>>
    ELSE normalized_segment(Head(items)) \o FilterMapSegments(Tail(items))

RECURSIVE FilterMapWords(_)
FilterMapWords(items) ==
    IF items = <<>> THEN <<>>
    ELSE normalized_word(Head(items)) \o FilterMapWords(Tail(items))

\* Some([segments, words]) or None
normalized_imported_transcript(fs, path) ==
    LET parsed == imported_transcript_payload(fs, path)
    IN  IF parsed = None THEN None
        ELSE LET segments == FilterMapSegments(UnwrapOr(parsed[1].segments, <<>>))
                 words == FilterMapWords(UnwrapOr(parsed[1].words, <<>>))
             IN  IF segments = <<>> /\ words = <<>> THEN None
                 ELSE Some([segments |-> segments, words |-> words])

\* a file is taken as valid as soon as it reads as JSON
imported_transcript_is_readable(fs, path) ==
    imported_transcript_payload(fs, path) /= None

imported_transcript_is_valid(fs, path) ==
    normalized_imported_transcript(fs, path) /= None

\* lowercase only: the separators stay in as tokens
transcript_tokens_unsplit(text) == [i \in 1..Len(text) |-> to_lowercase(text[i])]

\* lowercase, split at every non-alphanumeric lexeme, drop the empty pieces
transcript_tokens(text) ==
    LET lowered == [i \in 1..Len(text) |-> to_lowercase(text[i])]
    IN  SelectSeq(lowered, LAMBDA lexeme : lexeme \notin Separators)

has_any_token(tokens, candidates) ==
    \E c \in candidates : \E i \in 1..Len(tokens) : tokens[i] = c

\* the hook by its own name alone
HookWordsNamed == {"hook"}

HookWords == {"hook", "intro", "opening"}
ActionWords == {"action", "step", "steps", "process"}
PayoffWords == {"payoff", "result", "outcome"}
TakeawayWords == {"takeaway", "lesson", "conclusion"}

\* Some([coverage, has_tokens]) or None
transcript_coverage(fs, path) ==
    LET normalized == normalized_imported_transcript(fs, path)
    IN  IF normalized = None THEN None
        ELSE LET text == Join(<<Join(normalized[1].segments), Join(normalized[1].words)>>)
                 tokens == transcript_tokens(text)
             IN  Some([coverage |->
                           [hook |-> has_any_token(tokens, HookWords),
                            action |-> has_any_token(tokens, ActionWords),
                            payoff |-> has_any_token(tokens, PayoffWords),
                            takeaway |-> has_any_token(tokens, TakeawayWords)],
                       has_tokens |-> tokens /= <<>>])

(***************************************************************************)
(* Responses (protocol-rust/src/messages.rs).                              *)
(***************************************************************************)
\* error messages: the text, and the value format! puts into it (None without)
Msg(text) == [text |-> text, arg |-> <<>>]
\* a message that leaves the value out
MsgFixed(text, arg) == [text |-> text, arg |-> <<>>]
MsgWith(text, arg) == [text |-> text, arg |-> arg]

success(id, result) ==
    [id |-> id, ok |-> TRUE, code |-> "", message |-> Msg(""), result |-> Some(result)]

\* an error that is not keyed to the request
failure_unkeyed(id, code, message) ==
    [id |-> "unknown", ok |-> FALSE, code |-> code, message |-> message, result |-> None]

failure(id, code, message) ==
    [id |-> id, ok |-> FALSE, code |-> code, message |-> message, result |-> None]

MsgTokenRequired == "agent.preflight must be called first. preflightToken is required."
MsgTokenMissing == "preflightToken is missing or expired. Run agent.preflight again."
MsgTokenExpired == "preflightToken expired. Run agent.preflight again."
MsgTokenMismatch ==
    "preflightToken does not match current run parameters. Run agent.preflight again."

(***************************************************************************)
(* Preflight gate.                                                         *)
(***************************************************************************)
evaluate_agent_preflight(s, params, fs) ==
    LET runtime_budget_minutes == UnwrapOr(params.runtimeBudgetMinutes, 10)
        provider == transcription_provider(params)
        imported_path == UnwrapOr(params.importedTranscriptPath, "")
        budget_reason ==
            IF ~(runtime_budget_minutes \in 1..10)
            THEN <<"invalid_runtime_budget">> ELSE <<>>
        project_reason ==
            IF s.project_path = None THEN <<"missing_project">> ELSE <<>>
        recording_reason ==
            IF s.recording_url = None THEN <<"missing_recording">> ELSE <<>>
        provider_reason ==
            IF provider = "imported_transcript"
            THEN IF imported_path = "" THEN <<"missing_imported_transcript">>
                 ELSE IF ~imported_transcript_is_valid(fs, imported_path)
                      THEN <<"invalid_imported_transcript">>
                      ELSE <<>>
            ELSE <<"missing_local_model">>
        blocking_reasons ==
            budget_reason \o project_reason \o recording_reason \o provider_reason
    IN  [ready |-> blocking_reasons = <<>>,
         blocking_reasons |-> blocking_reasons,
         runtime_budget_minutes |-> runtime_budget_minutes,
         provider |-> provider,
         imported_transcript_path |-> imported_path]

preflight_token(now) == <<"preflight">> \o unix_timestamp_nanos(now)

\* the session agent_preflight stores under a token
PreflightSessionOf(s, token, evaluation, now) ==
    [token |-> token,
     ready |-> TRUE,
     runtime_budget_minutes |-> evaluation.runtime_budget_minutes,
     transcription_provider |-> evaluation.provider,
     imported_transcript_path |-> evaluation.imported_transcript_path,
     project_path |-> s.project_path,
     recording_url |-> s.recording_url,
     created_at_unix_seconds |-> now_unix_seconds(now)]

\* variant: a token is minted whatever the evaluation says
MintedTokenAlways(evaluation, now) == Some(preflight_token(now))

\* the token of agent_preflight: minted only for a ready evaluation
MintedToken(evaluation, now) ==
    IF evaluation.ready THEN Some(preflight_token(now)) ELSE None

\* [state, result]
agent_preflight(s, params, fs, now) ==
    LET evaluation == evaluate_agent_preflight(s, params, fs)
        token == MintedToken(evaluation, now)
        after ==
            IF token /= None
            THEN [s EXCEPT !.preflight_sessions =
                      MapInsert(@, token[1],
                                PreflightSessionOf(s, token[1], evaluation, now))]
            ELSE s
    IN  [state |-> after,
         result |-> [ready |-> evaluation.ready,
                     blockingReasons |-> evaluation.blocking_reasons,
                     canApplyDestructive |-> s.unsaved_changes,
                     transcriptionProvider |-> evaluation.provider,
                     preflightToken |-> token]]

\* variant: a token expires when its age reaches the TTL
PreflightTokenExpiredAtTtl(session, now) ==
    now_unix_seconds(now) - session.created_at_unix_seconds >= PREFLIGHT_TOKEN_TTL_SECONDS

PreflightTokenExpired(session, now) ==
    now_unix_seconds(now) - session.created_at_unix_seconds > PREFLIGHT_TOKEN_TTL_SECONDS

\* variant: the transcript path is not compared
PreflightMatchesButTranscript(session, token, evaluation, s) ==
    /\ session.ready
    /\ session.token = token
    /\ session.runtime_budget_minutes = evaluation.runtime_budget_minutes
    /\ session.transcription_provider = evaluation.provider
    /\ session.project_path = s.project_path
    /\ session.recording_url = s.recording_url

\* variant: the project path is not compared
PreflightMatchesButProject(session, token, evaluation, s) ==
    /\ session.ready
    /\ session.token = token
    /\ session.runtime_budget_minutes = evaluation.runtime_budget_minutes
    /\ session.transcription_provider = evaluation.provider
    /\ session.imported_transcript_path = evaluation.imported_transcript_path
    /\ session.recording_url = s.recording_url

PreflightMatches(session, token, evaluation, s) ==
    /\ session.ready
    /\ session.token = token
    /\ session.runtime_budget_minutes = evaluation.runtime_budget_minutes
    /\ session.transcription_provider = evaluation.provider
    /\ session.imported_transcript_path = evaluation.imported_transcript_path
    /\ session.project_path = s.project_path
    /\ session.recording_url = s.recording_url

\* [state, err]: err is None for Ok(()), Some(message) for Err(message)
validate_preflight_token(s, token, params, fs, now) ==
    IF token = EmptyString
    THEN [state |-> s, err |-> Some(MsgTokenRequired)]
    ELSE IF token \notin DOMAIN s.preflight_sessions
    THEN [state |-> s, err |-> Some(MsgTokenMissing)]
    ELSE LET session == s.preflight_sessions[token]
             removed == [s EXCEPT !.preflight_sessions = MapRemove(@, token)]
         IN  IF PreflightTokenExpired(session, now)
             THEN [state |-> removed, err |-> Some(MsgTokenExpired)]
             ELSE IF ~PreflightMatches(session, token,
                                       evaluate_agent_preflight(s, params, fs), s)
             THEN [state |-> removed, err |-> Some(MsgTokenMismatch)]
             ELSE [state |-> removed, err |-> None]

(***************************************************************************)
(* Narrative QA.                                                           *)
(***************************************************************************)
Beats == <<"hook", "action", "payoff", "takeaway">>

MissingBeats(coverage) == SelectSeq(Beats, LAMBDA beat : ~coverage[beat])

RunStatus(passed) == IF passed THEN "completed" ELSE "blocked"

\* variant: the reason is kept for a run that passed
RunBlockingReasonKept(passed, blocking_reason) == blocking_reason

RunBlockingReason(passed, blocking_reason) == IF passed THEN None ELSE blocking_reason

RunScore(covered_count) == <<covered_count, 4>>

build_agent_run(job_id, runtime_budget_minutes, coverage, blocking_reason, now) ==
    LET missing_beats == MissingBeats(coverage)
        covered_count == 4 - Len(missing_beats)
        passed == missing_beats = <<>>
    IN  [job_id |-> job_id,
         status |-> RunStatus(passed),
         runtime_budget_minutes |-> runtime_budget_minutes,
         blocking_reason |-> RunBlockingReason(passed, blocking_reason),
         updated_at |-> now_iso8601(now),
         qa_report |-> [passed |-> passed,
                        score |-> RunScore(covered_count),
                        coverage |-> coverage,
                        missingBeats |-> missing_beats]]

AllBeats(value) ==
    [hook |-> value, action |-> value, payoff |-> value, takeaway |-> value]

\* [coverage, blocking_reason] of agent.run after validation
RunCoverage(s, params, fs, clock_now) ==
    LET force == UnwrapOr(params.force, FALSE)
        provider == transcription_provider(params)
        imported_path == UnwrapOr(params.importedTranscriptPath, "")
    IN  IF force
        THEN [coverage |-> AllBeats(TRUE), blocking_reason |-> None]
        ELSE IF provider = "imported_transcript"
        THEN LET covered == transcript_coverage(fs, imported_path)
             IN  IF covered /= None
                 THEN [coverage |-> covered[1].coverage,
                       blocking_reason |->
                           IF covered[1].has_tokens
                           THEN Some("weak_narrative_structure")
                           ELSE Some("empty_transcript")]
                 ELSE [coverage |-> AllBeats(FALSE),
                       blocking_reason |-> Some("empty_transcript")]
        ELSE LET duration == current_duration(s, clock_now)
             IN  [coverage |-> [hook |-> TRUE,
                                action |-> duration >= 15,
                                payoff |-> duration >= 30,
                                takeaway |-> duration >= 45],
                  blocking_reason |-> Some("weak_narrative_structure")]

\* variant: the job id is the clock reading alone
NewJobIdByClock(s, now) == <<"agent", 1>> \o unix_timestamp_nanos(now)

\* lines 619-623: "agent-{}-{}" of the number of records plus one and the clock
NewJobId(s, now) ==
    <<"agent", Cardinality(DOMAIN s.agent_runs) + 1>> \o unix_timestamp_nanos(now)

(***************************************************************************)
(* Handlers: the arms of handle_request.  env is what a handler reads from *)
(* outside the session: [now, clock_now, fs, allow_force].  Each returns   *)
(* [state, response].                                                      *)
(***************************************************************************)
HandleAgentPreflight(s, req, env) ==
    LET done == agent_preflight(s, req.params, env.fs, env.now)
    IN  [state |-> done.state, response |-> success(req.id, done.result)]

\* lines 671-680: the run is built, stored, and the session marked unsaved
\* Variant: only a run whose QA passed marks the project as changed.
StoreRunPassedOnly(checked, req, run) ==
    [state |-> [checked EXCEPT
                    !.agent_runs = MapInsert(@, run.job_id, run),
                    !.unsaved_changes = @ \/ run.qa_report.passed],
     response |-> success(req.id, [jobId |-> run.job_id, status |-> run.status])]

StoreRun(checked, req, run) ==
    [state |-> [checked EXCEPT
                    !.agent_runs = MapInsert(@, run.job_id, run),
                    !.unsaved_changes = TRUE],
     response |-> success(req.id, [jobId |-> run.job_id, status |-> run.status])]

\* lines 619-676: the job id, the coverage and the record of a validated run
JudgeRun(checked, req, env, judged) ==
    StoreRun(checked, req,
             build_agent_run(NewJobId(checked, env.now),
                             UnwrapOr(req.params.runtimeBudgetMinutes, 10),
                             judged.coverage, judged.blocking_reason, env.now))

\* lines 592-617: the answer to the outcome of validate_preflight_token
RunValidated(validated, req, env) ==
    IF validated.err /= None
    THEN [state |-> validated.state,
          response |-> failure(req.id, "invalid_params", Msg(validated.err[1]))]
    ELSE IF ~(UnwrapOr(req.params.runtimeBudgetMinutes, 10) \in 1..10)
    THEN [state |-> validated.state,
          response |-> failure(req.id, "invalid_params",
                               Msg("runtimeBudgetMinutes must be between 1 and 10"))]
    ELSE IF UnwrapOr(req.params.force, FALSE) /\ ~env.allow_force
    THEN [state |-> validated.state,
          response |-> failure(req.id, "invalid_params",
              Msg("force is disabled for production runs. Set GG_AGENT_ALLOW_FORCE=1 for local debugging."))]
    ELSE JudgeRun(validated.state, req, env,
                  RunCoverage(validated.state, req.params, env.fs, env.clock_now))

HandleAgentRun(s, req, env) ==
    RunValidated(validate_preflight_token(s,
                     UnwrapOr(req.params.preflightToken, EmptyString),
                     req.params, env.fs, env.now),
                 req, env)

\* variant: the blocking reason is left out of the answer
StatusResultBare(run) ==
    [jobId |-> run.job_id,
     status |-> run.status,
     runtimeBudgetMinutes |-> run.runtime_budget_minutes,
     qaReport |-> run.qa_report,
     blockingReason |-> None,
     updatedAt |-> run.updated_at]

\* lines 703-713: the result object of agent.status
StatusResult(run) ==
    [jobId |-> run.job_id,
     status |-> run.status,
     runtimeBudgetMinutes |-> run.runtime_budget_minutes,
     qaReport |-> run.qa_report,
     blockingReason |-> run.blocking_reason,
     updatedAt |-> run.updated_at]

HandleAgentStatus(s, req, env) ==
    LET job_id == get_string(req.params, "jobId")
    IN  IF job_id = None
        THEN [state |-> s,
              response |-> failure(req.id, "invalid_params", Msg("jobId is required"))]
        ELSE IF job_id[1] \notin DOMAIN s.agent_runs
        THEN [state |-> s,
              response |-> failure(req.id, "invalid_params",
                                   MsgWith("Unknown jobId: ", job_id[1]))]
        ELSE [state |-> s,
              response |-> success(req.id, StatusResult(s.agent_runs[job_id[1]]))]

\* variant: the QA report is not consulted
QaPassedUnchecked(run) == TRUE

QaPassed(run) == run.qa_report.passed

\* variant: confirmation is asked for whatever the flag says
ApplyNeedsConfirmationAlways(s, destructive_intent) == s.unsaved_changes

ApplyNeedsConfirmation(s, destructive_intent) ==
    s.unsaved_changes /\ ~destructive_intent

\* variant: applying leaves the project clean
ApplyCutPlanClean(s) == [s EXCEPT !.unsaved_changes = FALSE]

\* the effect of a successful agent.apply on the session
ApplyCutPlan(s) == [s EXCEPT !.unsaved_changes = TRUE]

HandleAgentApply(s, req, env) ==
    LET job_id == get_string(req.params, "jobId")
        destructive_intent == UnwrapOr(req.params.destructiveIntent, FALSE)
    IN  IF job_id = None
        THEN [state |-> s,
              response |-> failure(req.id, "invalid_params", Msg("jobId is required"))]
        ELSE IF job_id[1] \notin DOMAIN s.agent_runs
        THEN [state |-> s,
              response |-> failure(req.id, "invalid_params",
                                   MsgWith("Unknown jobId: ", job_id[1]))]
        ELSE IF ~QaPassed(s.agent_runs[job_id[1]])
        THEN [state |-> s,
              response |-> failure(req.id, "qa_failed",
                                   Msg("Narrative QA failed. Apply is blocked."))]
        ELSE IF ApplyNeedsConfirmation(s, destructive_intent)
        THEN [state |-> s,
              response |-> failure(req.id, "needs_confirmation",
                  Msg("Unsaved project changes detected. Retry with destructiveIntent=true to continue."))]
        ELSE [state |-> ApplyCutPlan(s),
              response |-> success(req.id,
                  [success |-> TRUE,
                   message |-> "Applied cut plan to working timeline."])]

(***************************************************************************)
(* Capture and recording.                                                  *)
(***************************************************************************)
capture_status(s, clock_now) ==
    [isRunning |-> s.is_running,
     isRecording |-> s.is_recording,
     recordingDurationSeconds |-> current_duration(s, clock_now),
     recordingURL |-> s.recording_url,
     captureMetadata |-> s.capture_metadata,
     lastError |-> s.last_error,
     eventsURL |-> s.events_url]

DisplayMetadata ==
    [window |-> None, source |-> "display", width |-> 1920, height |-> 1080]

WindowMetadata(window_id) ==
    [window |-> Some(window_id), source |-> "window", width |-> 1280, height |-> 720]

\* Value::as_u64: a JSON number that is a non-negative integer
as_u64(value) ==
    IF value /= None /\ value[1] \in Nat THEN value ELSE None

\* variant: starting a capture marks the project unsaved
WithCaptureDirty(s, metadata) ==
    [s EXCEPT !.is_running = TRUE,
              !.capture_metadata = Some(metadata),
              !.unsaved_changes = TRUE]

\* the two assignments shared by the three capture.start arms
WithCapture(s, metadata) ==
    [s EXCEPT !.is_running = TRUE, !.capture_metadata = Some(metadata)]

HandleCaptureStartDisplay(s, req, env) ==
    LET after == WithCapture(s, DisplayMetadata)
    IN  [state |-> after,
         response |-> success(req.id, capture_status(after, env.clock_now))]

HandleCaptureStartCurrentWindow(s, req, env) ==
    LET after == WithCapture(s, WindowMetadata(101))
    IN  [state |-> after,
         response |-> success(req.id, capture_status(after, env.clock_now))]

HandleCaptureStartWindow(s, req, env) ==
    LET window_id == UnwrapOr(as_u64(req.params.windowId), 101)
        after == WithCapture(s, WindowMetadata(window_id))
    IN  [state |-> after,
         response |-> success(req.id, capture_status(after, env.clock_now))]

\* variant: capture.stop leaves a recording in progress
HandleCaptureStopOnly(s, req, env) ==
    [state |-> [s EXCEPT !.is_running = FALSE],
     response |-> success(req.id,
                      capture_status([s EXCEPT !.is_running = FALSE], env.clock_now))]

HandleCaptureStop(s, req, env) ==
    LET after == [s EXCEPT
                      !.recording_duration = RunningDurationStop(@, env.clock_now),
                      !.is_recording = FALSE,
                      !.is_running = FALSE]
    IN  [state |-> after,
         response |-> success(req.id, capture_status(after, env.clock_now))]

RecordingUrl == "native://recordings/session.mp4"
EventsUrl == "native://events/session-events.json"

\* variant: recording starts whether or not a capture runs
RecordingAllowedAlways(s) == TRUE

\* line 854: the guard of recording.start
RecordingAllowed(s) == s.is_running

HandleRecordingStart(s, req, env) ==
    IF ~RecordingAllowed(s)
    THEN [state |-> s,
          response |-> failure(req.id, "invalid_params",
                               Msg("Start capture before recording"))]
    ELSE LET after == [s EXCEPT
                           !.is_recording = TRUE,
                           !.recording_duration = RunningDurationStart(@, env.clock_now),
                           !.recording_url = Some(RecordingUrl),
                           !.events_url =
                               IF UnwrapOr(req.params.trackInputEvents, FALSE)
                               THEN Some(EventsUrl) ELSE @]
         IN  [state |-> after,
              response |-> success(req.id, capture_status(after, env.clock_now))]

\* variant: only a recording in progress marks the project unsaved
HandleRecordingStopIfRecording(s, req, env) ==
    [state |-> [s EXCEPT
                    !.recording_duration = RunningDurationStop(@, env.clock_now),
                    !.unsaved_changes = @ \/ s.is_recording,
                    !.is_recording = FALSE],
     response |-> success(req.id, capture_status(s, env.clock_now))]

HandleRecordingStop(s, req, env) ==
    LET after == [s EXCEPT
                      !.recording_duration = RunningDurationStop(@, env.clock_now),
                      !.is_recording = FALSE,
                      !.unsaved_changes = TRUE]
    IN  [state |-> after,
         response |-> success(req.id, capture_status(after, env.clock_now))]

HandleCaptureStatus(s, req, env) ==
    [state |-> s, response |-> success(req.id, capture_status(s, env.clock_now))]

(***************************************************************************)
(* Projects and the recents index.  The index file is None (missing or     *)
(* unreadable) or Some(data); data is a text, known by what it parses to:  *)
(* [json |-> None] is not JSON, [json |-> Some(value)] is the JSON value,  *)
(* whose field items is Some(array) or None (absent or not an array).  An  *)
(* item's field is Some(string) or None (absent or not a string).          *)
(* Auto-zoom values are in units of 0.0001.                                *)
(***************************************************************************)
\* PathBuf::file_stem of the paths the model opens; the path itself without one
file_stem(project_path) ==
    CASE project_path = "/w/alpha.gglass" -> "alpha"
      [] project_path = "/w/beta.gglass" -> "beta"
      [] OTHER -> project_path

is_valid_recent_project_item(item) ==
    /\ UnwrapOr(item.projectPath, "") /= ""
    /\ UnwrapOr(item.displayName, "") /= ""
    /\ UnwrapOr(item.lastOpenedAt, EmptyString) /= EmptyString

Take(items, n) == SubSeq(items, 1, IF Len(items) < n THEN Len(items) ELSE n)

\* fs::read_to_string: Err for a missing or unreadable file
read_to_string(index_file) == index_file

\* serde_json::from_str: Err for a text that is not JSON
from_str(data) == data.json

\* json!({ "items": items }).to_string()
to_string(items) == [json |-> Some([items |-> Some(items)])]

\* the items array of a parsed index and what the code does with it
RetainedItems(parsed) ==
    IF parsed.items = None THEN <<>>
    ELSE Take(SelectSeq(parsed.items[1], is_valid_recent_project_item),
              MAX_RECENT_PROJECTS)

\* variant: the cap is applied before the filter
load_recent_projects_cap_first(index_file) ==
    IF read_to_string(index_file) = None THEN <<>>
    ELSE IF from_str(read_to_string(index_file)[1]) = None THEN <<>>
    ELSE IF from_str(read_to_string(index_file)[1])[1].items = None THEN <<>>
    ELSE SelectSeq(Take(from_str(read_to_string(index_file)[1])[1].items[1],
                        MAX_RECENT_PROJECTS),
                   is_valid_recent_project_item)

load_recent_projects(index_file) ==
    IF read_to_string(index_file) = None THEN <<>>
    ELSE IF from_str(read_to_string(index_file)[1]) = None THEN <<>>
    ELSE RetainedItems(from_str(read_to_string(index_file)[1])[1])

\* variant: only the entries project.recents lists by default are written
save_recent_projects_listed(index_file, items, write_ok) ==
    IF write_ok THEN Some(to_string(Take(items, DEFAULT_RECENTS_LIMIT))) ELSE index_file

\* fs::write is best-effort: its error is dropped and the file stays as it was
save_recent_projects(index_file, items, write_ok) ==
    IF write_ok THEN Some(to_string(items)) ELSE index_file

RecentItem(project_path, now) ==
    [projectPath |-> Some(project_path),
     displayName |-> Some(file_stem(project_path)),
     lastOpenedAt |-> Some(now_iso8601(now))]

\* the in-memory list after record_recent_project
RecordedRecents(recent_projects, project_path, now) ==
    LET retained == SelectSeq(recent_projects,
                        LAMBDA existing : existing.projectPath /= Some(project_path))
    IN  Take(<<RecentItem(project_path, now)>> \o retained, MAX_RECENT_PROJECTS)

\* [state, index_file]
record_recent_project(s, index_file, project_path, now, write_ok) ==
    LET after == [s EXCEPT !.recent_projects = RecordedRecents(@, project_path, now)]
    IN  [state |-> after,
         index_file |-> save_recent_projects(index_file, after.recent_projects,
                                             write_ok)]

project_state(s) ==
    [projectPath |-> s.project_path,
     recordingURL |-> s.recording_url,
     eventsURL |-> s.events_url,
     autoZoom |-> [isEnabled |-> s.auto_zoom_enabled,
                   intensity |-> s.auto_zoom_intensity,
                   minimumKeyframeInterval |-> s.auto_zoom_min_keyframe_interval],
     captureMetadata |-> s.capture_metadata]

\* a clamp without its upper end
ClampBelow(value, low, high) == IF value < low THEN low ELSE value

Clamp(value, low, high) ==
    IF value < low THEN low ELSE IF value > high THEN high ELSE value

\* the handlers below also return the index file: [state, response, index_file]
\* Variant: a project.open without a path closes the open project before it
\* is refused.
HandleProjectOpenClosing(s, req, env) ==
    LET project_path == get_string(req.params, "projectPath")
    IN  IF project_path = None
        THEN [state |-> [s EXCEPT !.project_path = None,
                                  !.unsaved_changes = FALSE],
              index_file |-> env.index_file,
              response |-> failure(req.id, "invalid_params", Msg("projectPath is required"))]
        ELSE LET opened == [s EXCEPT !.project_path = project_path,
                                     !.unsaved_changes = FALSE]
                 recorded == record_recent_project(opened, env.index_file,
                                 project_path[1], env.now, env.write_ok)
             IN  [state |-> recorded.state, index_file |-> recorded.index_file,
                  response |-> success(req.id, project_state(recorded.state))]

HandleProjectOpen(s, req, env) ==
    LET project_path == get_string(req.params, "projectPath")
    IN  IF project_path = None
        THEN [state |-> s, index_file |-> env.index_file,
              response |-> failure(req.id, "invalid_params", Msg("projectPath is required"))]
        ELSE LET opened == [s EXCEPT !.project_path = project_path,
                                     !.unsaved_changes = FALSE]
                 recorded == record_recent_project(opened, env.index_file,
                                 project_path[1], env.now, env.write_ok)
             IN  [state |-> recorded.state, index_file |-> recorded.index_file,
                  response |-> success(req.id, project_state(recorded.state))]

ApplyAutoZoom(s, auto_zoom) ==
    IF auto_zoom = None THEN s
    ELSE [s EXCEPT
              !.auto_zoom_enabled = UnwrapOr(auto_zoom[1].isEnabled, @),
              !.auto_zoom_intensity =
                  Clamp(UnwrapOr(auto_zoom[1].intensity, @), 0, 10000),
              !.auto_zoom_min_keyframe_interval =
                  Max(UnwrapOr(auto_zoom[1].minimumKeyframeInterval, @), 1)]

HandleProjectSave(s, req, env) ==
    LET project_path == get_string(req.params, "projectPath")
        named == IF project_path /= None
                 THEN [s EXCEPT !.project_path = project_path] ELSE s
        zoomed == ApplyAutoZoom(named, req.params.autoZoom)
        recorded ==
            IF zoomed.project_path /= None
            THEN record_recent_project(zoomed, env.index_file,
                     zoomed.project_path[1], env.now, env.write_ok)
            ELSE [state |-> zoomed, index_file |-> env.index_file]
        saved == [recorded.state EXCEPT !.unsaved_changes = FALSE]
    IN  [state |-> saved, index_file |-> recorded.index_file,
         response |-> success(req.id, project_state(saved))]

HandleProjectCurrent(s, req, env) ==
    [state |-> s, response |-> success(req.id, project_state(s))]

HandleProjectRecents(s, req, env) ==
    LET limit == IF req.params.limit /= None
                 THEN (IF req.params.limit[1] < 100 THEN req.params.limit[1] ELSE 100)
                 ELSE DEFAULT_RECENTS_LIMIT
    IN  [state |-> s,
         response |-> success(req.id, [items |-> Take(s.recent_projects, limit)])]

(***************************************************************************)
(* Export and the methods that only report.                                *)
(***************************************************************************)
HandleExportRun(s, req, env) ==
    LET output_url == get_string(req.params, "outputURL")
    IN  IF output_url = None
        THEN [state |-> s,
              response |-> failure(req.id, "invalid_params", Msg("outputURL is required"))]
        ELSE [state |-> s,
              response |-> success(req.id, [outputURL |-> output_url[1]])]

\* variant: no covered beat is counted
AppliedSegmentsNone(run) == 0

\* lines 965-976: the number of beats whose coverage is true
AppliedSegments(run) ==
    Cardinality({i \in 1..Len(Beats) : run.qa_report.coverage[Beats[i]]})

HandleExportRunCutPlan(s, req, env) ==
    LET output_url == get_string(req.params, "outputURL")
        job_id == get_string(req.params, "jobId")
    IN  IF output_url = None
        THEN [state |-> s,
              response |-> failure(req.id, "invalid_params", Msg("outputURL is required"))]
        ELSE IF get_string(req.params, "presetId") = None
        THEN [state |-> s,
              response |-> failure(req.id, "invalid_params", Msg("presetId is required"))]
        ELSE IF job_id = None
        THEN [state |-> s,
              response |-> failure(req.id, "invalid_params", Msg("jobId is required"))]
        ELSE IF job_id[1] \notin DOMAIN s.agent_runs
        THEN [state |-> s,
              response |-> failure(req.id, "invalid_params",
                                   MsgWith("Unknown jobId: ", job_id[1]))]
        ELSE IF ~QaPassed(s.agent_runs[job_id[1]])
        THEN [state |-> s,
              response |-> failure(req.id, "qa_failed",
                                   Msg("Narrative QA failed. Cut-plan export is blocked."))]
        ELSE IF AppliedSegments(s.agent_runs[job_id[1]]) = 0
        THEN [state |-> s,
              response |-> failure(req.id, "invalid_cut_plan",
                                   Msg("Cut plan artifact is missing."))]
        ELSE [state |-> s,
              response |-> success(req.id,
                  [outputURL |-> output_url[1],
                   appliedSegments |-> AppliedSegments(s.agent_runs[job_id[1]])])]

ReportingMethods ==
    {"system.ping", "engine.capabilities", "permissions.get",
     "permissions.requestScreenRecording", "permissions.requestMicrophone",
     "permissions.requestInputMonitoring",
     "permissions.openInputMonitoringSettings", "sources.list", "export.info"}

HandleReporting(s, req, env) ==
    [state |-> s, response |-> success(req.id, [method |-> req.method])]

(***************************************************************************)
(* The dispatcher.                                                         *)
(***************************************************************************)
EngineMethods ==
    ReportingMethods \cup
    {"agent.preflight", "agent.run", "agent.status", "agent.apply",
     "capture.startDisplay", "capture.startCurrentWindow", "capture.startWindow",
     "capture.stop", "recording.start", "recording.stop", "capture.status",
     "export.run", "export.runCutPlan", "project.current", "project.open",
     "project.save", "project.recents"}

\* a handler that leaves the index file alone
KeepIndex(done, env) ==
    [state |-> done.state, response |-> done.response, index_file |-> env.index_file]

\* [state, response, index_file]
handle_request(s, req, env) ==
    LET m == req.method
    IN  IF m \notin EngineMethods
        THEN [state |-> s, index_file |-> env.index_file,
              response |-> failure(req.id, "unsupported_method",
                                   MsgWith("Unsupported method: ", <<m>>))]
        ELSE CASE m = "agent.preflight" -> KeepIndex(HandleAgentPreflight(s, req, env), env)
               [] m = "agent.run" -> KeepIndex(HandleAgentRun(s, req, env), env)
               [] m = "agent.status" -> KeepIndex(HandleAgentStatus(s, req, env), env)
               [] m = "agent.apply" -> KeepIndex(HandleAgentApply(s, req, env), env)
               [] m = "capture.startDisplay" ->
                      KeepIndex(HandleCaptureStartDisplay(s, req, env), env)
               [] m = "capture.startCurrentWindow" ->
                      KeepIndex(HandleCaptureStartCurrentWindow(s, req, env), env)
               [] m = "capture.startWindow" ->
                      KeepIndex(HandleCaptureStartWindow(s, req, env), env)
               [] m = "capture.stop" -> KeepIndex(HandleCaptureStop(s, req, env), env)
               [] m = "recording.start" -> KeepIndex(HandleRecordingStart(s, req, env), env)
               [] m = "recording.stop" -> KeepIndex(HandleRecordingStop(s, req, env), env)
               [] m = "capture.status" -> KeepIndex(HandleCaptureStatus(s, req, env), env)
               [] m = "export.run" -> KeepIndex(HandleExportRun(s, req, env), env)
               [] m = "export.runCutPlan" ->
                      KeepIndex(HandleExportRunCutPlan(s, req, env), env)
               [] m = "project.current" -> KeepIndex(HandleProjectCurrent(s, req, env), env)
               [] m = "project.open" -> HandleProjectOpen(s, req, env)
               [] m = "project.save" -> HandleProjectSave(s, req, env)
               [] m = "project.recents" -> KeepIndex(HandleProjectRecents(s, req, env), env)
               [] OTHER -> KeepIndex(HandleReporting(s, req, env), env)

(***************************************************************************)
(* The session after construction (State::new).                            *)
(***************************************************************************)
StateNew(index_file) ==
    [is_running |-> FALSE,
     is_recording |-> FALSE,
     recording_duration |-> RunningDurationDefault,
     recording_url |-> None,
     events_url |-> None,
     last_error |-> None,
     project_path |-> None,
     auto_zoom_enabled |-> FALSE,
     auto_zoom_intensity |-> 5500,
     auto_zoom_min_keyframe_interval |-> 1500,
     capture_metadata |-> None,
     recent_projects |-> load_recent_projects(index_file),
     unsaved_changes |-> FALSE,
     agent_runs |-> EmptyMap,
     preflight_sessions |-> EmptyMap]

(***************************************************************************)
(* Inputs of the model: transcript fixtures (those of the crate's tests),  *)
(* request parameters, project paths.  Transcript times are in tenths of a *)
(* second.                                                                 *)
(***************************************************************************)
Segment(text, start, end) ==
    [text |-> Some(text), word |-> None, start |-> Some(start), end |-> Some(end)]

Word(word, start, end) ==
    [text |-> None, word |-> Some(<<word>>), start |-> Some(start), end |-> Some(end)]

\* write_imported_transcript
TranscriptAllBeats ==
    Some([segments |->
              Some(<<Segment(<<"Hook", " ", "action", " ", "payoff", " ", "takeaway">>,
                             0, 20)>>),
          words |->
              Some(<<Word("Hook", 0, 5), Word("action", 5, 10),
                     Word("payoff", 10, 15), Word("takeaway", 15, 20)>>)])

\* write_hook_only_transcript
TranscriptHookOnly ==
    Some([segments |->
              Some(<<Segment(<<"Hook", " ", "intro", " ", "opening">>, 0, 10)>>),
          words |->
              Some(<<Word("Hook", 0, 3), Word("intro", 3, 6), Word("opening", 6, 10)>>)])

\* every beat by another keyword of its set, over a segment and two words
TranscriptSynonyms ==
    Some([segments |-> Some(<<Segment(<<"intro", "-", "steps">>, 0, 5)>>),
          words |-> Some(<<Word("outcome", 5, 6), Word("lesson", 6, 7)>>)])

\* text without an alphanumeric character
TranscriptPunctuation ==
    Some([segments |-> Some(<<Segment(<<"!", "-", "!">>, 0, 1)>>), words |-> None])

\* words, none of them a keyword
TranscriptOffTopic ==
    Some([segments |-> Some(<<Segment(<<"hooks", " ", "hello">>, 0, 5)>>),
          words |-> None])

\* a usable segment among entries with blank text, end = start, start < 0
TranscriptMixed ==
    Some([segments |->
              Some(<<Segment(<<"Hook", " ", "action", " ", "payoff", " ", "takeaway">>,
                             0, 20),
                     Segment(<<" ">>, 0, 5),
                     Segment(<<"outro">>, 7, 7)>>),
          words |-> Some(<<Word("Hook", -1, 2)>>)])

\* a usable hook; action and payoff only in entries that are dropped
TranscriptMixedHook ==
    Some([segments |-> Some(<<Segment(<<"Hook">>, 0, 5), Segment(<<"action">>, 5, 5)>>),
          words |-> Some(<<Word("payoff", -1, 2)>>)])

\* no entry is usable: end = start, no start, blank word
TranscriptUnusable ==
    Some([segments |->
              Some(<<Segment(<<"Hook">>, 5, 5),
                     [text |-> Some(<<"Hook">>), word |-> None, start |-> None,
                      end |-> Some(5)]>>),
          words |-> Some(<<Word(" ", 0, 5)>>)])

\* JSON without a segments or a words array
TranscriptNoArrays == Some([segments |-> None, words |-> None])

\* what a transcript file may hold; None is a file that is not JSON
Transcripts ==
    {None, TranscriptNoArrays, TranscriptUnusable, TranscriptAllBeats,
     TranscriptHookOnly, TranscriptSynonyms, TranscriptPunctuation,
     TranscriptOffTopic, TranscriptMixed, TranscriptMixedHook}

FixtureFiles ==
    [path \in {"all.json", "hook.json"} |->
        IF path = "all.json" THEN TranscriptAllBeats ELSE TranscriptHookOnly]

ProjectPaths == {"/w/alpha.gglass", "/w/beta.gglass"}

Req(id, method, params) == [id |-> id, method |-> method, params |-> params]

\* no request is being handled: the engine waits for the next line
Idle == Req("", "", NoParams)
NoResponse == [id |-> "", ok |-> TRUE, code |-> "", message |-> Msg(""), result |-> None]
Waiting == pc = "read"

(***************************************************************************)
(* The linux-native and windows-native engines.  Each keeps its own State  *)
(* and answers the same request at the same reading of the clocks.  Only   *)
(* capture.startDisplay, capture.startWindow, capture.stop,                *)
(* recording.start, recording.stop, project.open and project.save are      *)
(* modelled for them; any other request leaves them as they are.           *)
(* windows-native's recents functions and its capture_status and           *)
(* project_state are line for line those of native-foundation, and         *)
(* linux-native's project_state is too, so the same operators model them.  *)
(***************************************************************************)
SharedMethods ==
    {"capture.startDisplay", "capture.startWindow", "capture.stop",
     "recording.start", "recording.stop", "project.open", "project.save"}

LinuxStateNew ==
    [is_running |-> FALSE,
     is_recording |-> FALSE,
     recording_duration |-> RunningDurationDefault,
     recording_url |-> None,
     events_url |-> None,
     last_error |-> None,
     project_path |-> None,
     auto_zoom_enabled |-> FALSE,
     auto_zoom_intensity |-> 5500,
     auto_zoom_min_keyframe_interval |-> 1500,
     capture_metadata |-> None]

linux_capture_status(s, clock_now) ==
    [isRunning |-> s.is_running,
     isRecording |-> s.is_recording,
     recordingDurationSeconds |-> current_duration(s, clock_now),
     recordingURL |-> s.recording_url,
     lastError |-> s.last_error,
     eventsURL |-> s.events_url]

LinuxDisplayMetadata == [source |-> "display", width |-> 1920, height |-> 1080]
LinuxWindowMetadata == [source |-> "window", width |-> 1280, height |-> 720]

LinuxStatus(id, after, clock_now) ==
    [state |-> after, response |-> success(id, linux_capture_status(after, clock_now))]

LinuxProject(id, after) ==
    [state |-> after, response |-> success(id, project_state(after))]

\* Variant: recording.stop stops the accumulator and leaves the flag.
LinuxRecordingStoppedClockOnly(s, clock_now) ==
    [s EXCEPT !.recording_duration = RunningDurationStop(@, clock_now)]

\* recording.stop: the accumulator stops and the flag is cleared
LinuxRecordingStopped(s, clock_now) ==
    [s EXCEPT !.recording_duration = RunningDurationStop(@, clock_now),
              !.is_recording = FALSE]

\* [state, response]
linux_handle_request(s, req, clock_now) ==
    CASE req.method = "capture.startDisplay" ->
             LinuxStatus(req.id, WithCapture(s, LinuxDisplayMetadata), clock_now)
      [] req.method = "capture.startWindow" ->
             LinuxStatus(req.id, WithCapture(s, LinuxWindowMetadata), clock_now)
      [] req.method = "capture.stop" ->
             LinuxStatus(req.id,
                 [s EXCEPT !.recording_duration = RunningDurationStop(@, clock_now),
                           !.is_recording = FALSE,
                           !.is_running = FALSE],
                 clock_now)
      [] req.method = "recording.start" ->
             IF ~s.is_running
             THEN [state |-> s,
                   response |-> failure(req.id, "invalid_params",
                                        Msg("Start capture before recording"))]
             ELSE LinuxStatus(req.id,
                      [s EXCEPT
                           !.is_recording = TRUE,
                           !.recording_duration = RunningDurationStart(@, clock_now),
                           !.recording_url = Some(RecordingUrl),
                           !.events_url =
                               IF UnwrapOr(req.params.trackInputEvents, FALSE)
                               THEN Some(EventsUrl) ELSE @],
                      clock_now)
      [] req.method = "recording.stop" ->
             LinuxStatus(req.id, LinuxRecordingStopped(s, clock_now), clock_now)
      [] req.method = "project.open" ->
             IF get_string(req.params, "projectPath") = None
             THEN [state |-> s,
                   response |-> failure(req.id, "invalid_params",
                                        Msg("projectPath is required"))]
             ELSE LinuxProject(req.id,
                      [s EXCEPT !.project_path = get_string(req.params, "projectPath")])
      [] req.method = "project.save" ->
             LinuxProject(req.id,
                 ApplyAutoZoom(
                     IF get_string(req.params, "projectPath") /= None
                     THEN [s EXCEPT !.project_path = get_string(req.params, "projectPath")]
                     ELSE s,
                     req.params.autoZoom))
      [] OTHER -> [state |-> s, response |-> NoResponse]

WindowsStateNew(index_file) ==
    [is_running |-> FALSE,
     is_recording |-> FALSE,
     recording_duration |-> RunningDurationDefault,
     recording_url |-> None,
     events_url |-> None,
     last_error |-> None,
     project_path |-> None,
     auto_zoom_enabled |-> FALSE,
     auto_zoom_intensity |-> 5500,
     auto_zoom_min_keyframe_interval |-> 1500,
     capture_metadata |-> None,
     recent_projects |-> load_recent_projects(index_file)]

WindowsStatus(id, after, index_file, clock_now) ==
    [state |-> after, index_file |-> index_file,
     response |-> success(id, capture_status(after, clock_now))]

WindowsProject(id, recorded) ==
    [state |-> recorded.state, index_file |-> recorded.index_file,
     response |-> success(id, project_state(recorded.state))]

WindowsSaved(s, index_file, env) ==
    IF s.project_path /= None
    THEN record_recent_project(s, index_file, s.project_path[1], env.now, env.write_ok)
    ELSE [state |-> s, index_file |-> index_file]

\* [state, index_file, response]
windows_handle_request(s, index_file, req, env) ==
    CASE req.method = "capture.startDisplay" ->
             WindowsStatus(req.id, WithCapture(s, DisplayMetadata), index_file,
                           env.clock_now)
      [] req.method = "capture.startWindow" ->
             WindowsStatus(req.id,
                 WithCapture(s, WindowMetadata(UnwrapOr(as_u64(req.params.windowId), 101))),
                 index_file, env.clock_now)
      [] req.method = "capture.stop" ->
             WindowsStatus(req.id,
                 [s EXCEPT !.recording_duration = RunningDurationStop(@, env.clock_now),
                           !.is_recording = FALSE,
                           !.is_running = FALSE],
                 index_file, env.clock_now)
      [] req.method = "recording.start" ->
             IF ~s.is_running
             THEN [state |-> s, index_file |-> index_file,
                   response |-> failure(req.id, "invalid_params",
                                        Msg("Start capture before recording"))]
             ELSE WindowsStatus(req.id,
                      [s EXCEPT
                           !.is_recording = TRUE,
                           !.recording_duration =
                               RunningDurationStart(@, env.clock_now),
                           !.recording_url = Some(RecordingUrl),
                           !.events_url =
                               IF UnwrapOr(req.params.trackInputEvents, FALSE)
                               THEN Some(EventsUrl) ELSE @],
                      index_file, env.clock_now)
      [] req.method = "recording.stop" ->
             WindowsStatus(req.id,
                 [s EXCEPT !.recording_duration = RunningDurationStop(@, env.clock_now),
                           !.is_recording = FALSE],
                 index_file, env.clock_now)
      [] req.method = "project.open" ->
             IF get_string(req.params, "projectPath") = None
             THEN [state |-> s, index_file |-> index_file,
                   response |-> failure(req.id, "invalid_params",
                                        Msg("projectPath is required"))]
             ELSE WindowsProject(req.id,
                      record_recent_project(
                          [s EXCEPT !.project_path = get_string(req.params, "projectPath")],
                          index_file, get_string(req.params, "projectPath")[1],
                          env.now, env.write_ok))
      [] req.method = "project.save" ->
             WindowsProject(req.id,
                 WindowsSaved(
                     ApplyAutoZoom(
                         IF get_string(req.params, "projectPath") /= None
                         THEN [s EXCEPT
                                   !.project_path = get_string(req.params, "projectPath")]
                         ELSE s,
                         req.params.autoZoom),
                     index_file, env))
      [] OTHER -> [state |-> s, index_file |-> index_file, response |-> NoResponse]

\* a string no agent.preflight has returned
UnknownToken == <<"preflight", "x">>
UnknownJobId == <<"agent", 0, 0, 0>>

BudgetParams == {None, Some(11)}
ProviderParams == {None, Some("imported_transcript")}
TranscriptPathParams == {None} \cup {Some(path) : path \in DOMAIN FixtureFiles}
ForceParams == {None, Some(TRUE)}
IntentParams == {None, Some(FALSE), Some(TRUE)}
ProjectPathParams == {None} \cup {Some(path) : path \in ProjectPaths}
TrackParams == {None, Some(TRUE)}
\* absent, an id, and a number that is not a u64
WindowIdParams == {None, Some(7), Some(-1)}
OutputParams == {None, Some("/out/cut.mp4")}
PresetParams == {None, Some("h264")}

\* index files found at start-up.  OldPaths are paths of earlier sessions.
OldPaths ==
    <<"/w/p01", "/w/p02", "/w/p03", "/w/p04", "/w/p05", "/w/p06", "/w/p07",
      "/w/p08", "/w/p09", "/w/p10", "/w/p11", "/w/p12", "/w/p13", "/w/p14",
      "/w/p15", "/w/p16", "/w/p17", "/w/p18", "/w/p19", "/w/alpha.gglass",
      "/w/p21", "/w/p22", "/w/p23">>

OldItem(i) ==
    [projectPath |-> Some(OldPaths[i]),
     displayName |-> Some("old"),
     lastOpenedAt |-> Some(<<"rfc3339", 0, 0>>)]

\* items that load drops: an empty name, a date that is not a string
NamelessItem(i) == [OldItem(i) EXCEPT !.displayName = Some("")]
UndatedItem(i) == [OldItem(i) EXCEPT !.lastOpenedAt = None]

IndexFileOf(items) == Some([json |-> Some([items |-> Some(items)])])

\* exactly MAX_RECENT_PROJECTS valid items, the last of them alpha
IndexFileFull == IndexFileOf([i \in 1..MAX_RECENT_PROJECTS |-> OldItem(i)])

\* more valid items than the cap, with two invalid ones among the first
IndexFileLong ==
    IndexFileOf([i \in 1..Len(OldPaths) |->
                    IF i = 2 THEN NamelessItem(i)
                    ELSE IF i = 5 THEN UndatedItem(i)
                    ELSE OldItem(i)])

\* the same path twice
IndexFileTwice == IndexFileOf(<<OldItem(20), OldItem(1), OldItem(20)>>)

IndexFiles ==
    {None,
     Some([json |-> None]),
     Some([json |-> Some([items |-> None])]),
     IndexFileFull, IndexFileLong, IndexFileTwice}

(***************************************************************************)
(* One step of run_engine: a request is decoded and handled; the answer is *)
(* written by WriteResponse.  write_ok says whether a write of the recents *)
(* index succeeds.                                                         *)
(***************************************************************************)
\* an environment in which the opt-in is always set
EnvOptedIn(write_ok) ==
    [now |-> wall, clock_now |-> monotonic, fs |-> files,
     allow_force |-> TRUE, index_file |-> recents_index,
     write_ok |-> write_ok]

Env(write_ok) ==
    [now |-> wall, clock_now |-> monotonic, fs |-> files,
     allow_force |-> allow_force, index_file |-> recents_index,
     write_ok |-> write_ok]

IssuedBy(req, resp) ==
    IF req.method = "agent.preflight" /\ resp.ok /\ resp.result[1].preflightToken /= None
    THEN <<resp.result[1].preflightToken[1]>>
    ELSE <<>>

\* validate_preflight_token finds a session stored under the token it is given
RedeemedBy(s, req) ==
    LET token == UnwrapOr(req.params.preflightToken, EmptyString)
    IN  IF req.method = "agent.run" /\ token \in DOMAIN s.preflight_sessions
        THEN <<token>>
        ELSE <<>>

\* What is remembered of each token from agent.preflight's answer on: the
\* content of the transcript file it names, as it was when the token was
\* issued, and whether the open project has differed from the token's
\* snapshot after any request since. A token is remembered until the request
\* after the one that removed its session.
FileAt(path) == IF path \in DOMAIN files THEN files[path] ELSE None

TrackedAfter(was, s, after, newly) ==
    [token \in DOMAIN s.preflight_sessions \cup DOMAIN after.preflight_sessions |->
        IF token \in DOMAIN after.preflight_sessions
              /\ (token \notin DOMAIN was \/ \E i \in DOMAIN newly : newly[i] = token)
        THEN [file |-> FileAt(after.preflight_sessions[token].imported_transcript_path),
              strayed |-> FALSE]
        ELSE IF token \in DOMAIN after.preflight_sessions
        THEN [was[token] EXCEPT
                  !.strayed = @ \/ after.preflight_sessions[token].project_path
                                      /= after.project_path]
        ELSE was[token]]

\* The methods that edit the project and the ones that save it, by their
\* answers: a successful agent.run, recording.stop or agent.apply edits, a
\* successful project.open or project.save leaves nothing to save.
EditedAfter(was, req, resp) ==
    IF resp.ok /\ req.method \in {"agent.run", "recording.stop", "agent.apply"} THEN TRUE
    ELSE IF resp.ok /\ req.method \in {"project.open", "project.save"} THEN FALSE
    ELSE was

Handled(req, write_ok) ==
    \E done \in {handle_request(state, req, Env(write_ok))} :
        /\ before' = state
        /\ redeemed' = redeemed \o RedeemedBy(state, req)
        /\ edited' = EditedAfter(edited, req, done.response)
        /\ tracked' = TrackedAfter(tracked, state, done.state, IssuedBy(req, done.response))
        /\ linux' = IF linux = None THEN None
                    ELSE Some(linux_handle_request(linux[1].state, req, monotonic))
        /\ windows' = IF windows = None THEN None
                      ELSE Some(windows_handle_request(windows[1].state,
                                    windows[1].index_file, req, Env(write_ok)))
        /\ state' = done.state
        /\ recents_index' = done.index_file
        /\ pc' = "write"
        /\ request' = Req(req.id, req.method, req.params)
        /\ response' = done.response
        /\ issued' = issued \o IssuedBy(req, done.response)
        /\ UNCHANGED <<wall, monotonic, files, allow_force>>

Step(req, write_ok) ==
    /\ Handled(req, write_ok)
    /\ UNCHANGED <<stdin, stdout>>

\* agent.preflight, as long as at most max_issued tokens have been returned
AgentPreflight(budgets, providers, paths, max_issued) ==
    \E budget \in budgets, provider \in providers, path \in paths :
        /\ Waiting
        /\ Step(Req("r1", "agent.preflight",
                    [NoParams EXCEPT !.runtimeBudgetMinutes = budget,
                                     !.transcriptionProvider = provider,
                                     !.importedTranscriptPath = path]), TRUE)
        /\ Len(issued') <= max_issued

\* the tokens a client can present: none, the empty string, a token it made
\* up, and every token it has been given
TokenParams ==
    {None, Some(EmptyString), Some(UnknownToken)}
        \cup {Some(issued[i]) : i \in DOMAIN issued}

\* agent.run, as long as at most max_runs records are stored
AgentRun(budgets, providers, paths, forces, max_runs) ==
    \E token \in TokenParams, budget \in budgets, provider \in providers,
       path \in paths, force \in forces :
        /\ Waiting
        /\ Step(Req("r1", "agent.run",
                    [NoParams EXCEPT !.preflightToken = token,
                                     !.runtimeBudgetMinutes = budget,
                                     !.transcriptionProvider = provider,
                                     !.importedTranscriptPath = path,
                                     !.force = force]), TRUE)
        /\ Cardinality(DOMAIN state'.agent_runs) <= max_runs

JobIdParams == {None, Some(UnknownJobId)} \cup {Some(job) : job \in DOMAIN state.agent_runs}

AgentStatus ==
    \E job \in JobIdParams :
        /\ Waiting
        /\ Step(Req("r1", "agent.status", [NoParams EXCEPT !.jobId = job]), TRUE)

AgentApply ==
    \E job \in JobIdParams, intent \in IntentParams :
        /\ Waiting
        /\ Step(Req("r1", "agent.apply",
                    [NoParams EXCEPT !.jobId = job, !.destructiveIntent = intent]), TRUE)

CaptureStartDisplay ==
    /\ Waiting
    /\ Step(Req("r1", "capture.startDisplay", NoParams), TRUE)

CaptureStartCurrentWindow ==
    /\ Waiting
    /\ Step(Req("r1", "capture.startCurrentWindow", NoParams), TRUE)

CaptureStartWindow(window_ids) ==
    \E window_id \in window_ids :
        /\ Waiting
        /\ Step(Req("r1", "capture.startWindow",
                    [NoParams EXCEPT !.windowId = window_id]), TRUE)

CaptureStop ==
    /\ Waiting
    /\ Step(Req("r1", "capture.stop", NoParams), TRUE)

RecordingStart(tracks) ==
    \E track \in tracks :
        /\ Waiting
        /\ Step(Req("r1", "recording.start",
                    [NoParams EXCEPT !.trackInputEvents = track]), TRUE)

RecordingStop ==
    /\ Waiting
    /\ Step(Req("r1", "recording.stop", NoParams), TRUE)

ExportRunCutPlan(outputs, presets) ==
    \E job \in JobIdParams, output \in outputs, preset \in presets :
        /\ Waiting
        /\ Step(Req("r1", "export.runCutPlan",
                    [NoParams EXCEPT !.jobId = job, !.outputURL = output,
                                     !.presetId = preset]), TRUE)

\* writes: whether the write of the recents index may succeed, may fail
ProjectOpen(paths, writes) ==
    \E path \in paths, write_ok \in writes :
        /\ Waiting
        /\ Step(Req("r1", "project.open", [NoParams EXCEPT !.projectPath = path]),
                write_ok)

\* autoZoom params: absent, or an object whose fields are absent or given, in
\* units of 0.0001 (3.0 is 30000)
ZoomParams ==
    {None} \cup
    {Some([isEnabled |-> enabled, intensity |-> intensity,
           minimumKeyframeInterval |-> interval]) :
        enabled \in {None, Some(TRUE), Some(FALSE)},
        intensity \in {None, Some(30000), Some(-2500), Some(2500)},
        interval \in {None, Some(0), Some(3000)}}

ProjectSave(paths, zooms, writes) ==
    \E path \in paths, zoom \in zooms, write_ok \in writes :
        /\ Waiting
        /\ Step(Req("r1", "project.save",
                    [NoParams EXCEPT !.projectPath = path, !.autoZoom = zoom]),
                write_ok)

\* write_response: the answer is written and the loop reads the next line
WriteResponse ==
    /\ pc = "write"
    /\ pc' = "read"
    /\ request' = Idle
    /\ response' = NoResponse
    /\ before' = state
    /\ stdout' = IF stdin.lines = <<>> THEN stdout ELSE Append(stdout, response)
    /\ UNCHANGED <<state, wall, monotonic, files, recents_index, allow_force, issued,
                   redeemed, edited, tracked, linux, windows, stdin>>

\* the system clock is set or advances between two requests
WallClockChange(instants) ==
    /\ Waiting
    /\ \E now \in instants \ {wall} : wall' = now
    /\ UNCHANGED <<state, monotonic, files, recents_index, allow_force, pc,
                   request, response, before, issued, redeemed, edited, tracked, linux, windows,
                   stdin, stdout>>

\* the monotonic clock (State::clock) ticks between two requests
ClockTick(last) ==
    /\ Waiting
    /\ monotonic < last
    /\ monotonic' = monotonic + 1
    /\ UNCHANGED <<state, wall, files, recents_index, allow_force, pc,
                   request, response, before, issued, redeemed, edited, tracked, linux, windows,
                   stdin, stdout>>

\* what is on disk at the index path when the process is launched
\* the user writes a transcript file; the engine never does
FilesChange(paths, contents) ==
    /\ Waiting
    /\ \E path \in paths, content \in contents :
           /\ path \in DOMAIN files => files[path] /= content
           /\ files' = [p \in DOMAIN files \cup {path} |->
                            IF p = path THEN content ELSE files[p]]
    /\ UNCHANGED <<state, wall, monotonic, recents_index, allow_force, pc,
                   request, response, before, issued, redeemed, edited, tracked, linux, windows,
                   stdin, stdout>>

IndexFileFound(index_files) ==
    /\ pc = "start"
    /\ \E found \in index_files \ {recents_index} : recents_index' = found
    /\ UNCHANGED <<state, wall, monotonic, files, allow_force, pc,
                   request, response, before, issued, redeemed, edited, tracked, linux, windows,
                   stdin, stdout>>

\* the process before run_engine has built its State
Init ==
    /\ pc = "start"
    /\ recents_index = None
    /\ state = StateNew(None)
    /\ wall = [seconds |-> 0, subsec |-> 0]
    /\ monotonic = 0
    /\ files = FixtureFiles
    /\ allow_force = FALSE
    /\ request = Idle
    /\ response = NoResponse
    /\ before = state
    /\ issued = <<>>
    /\ redeemed = <<>>
    /\ edited = FALSE
    /\ tracked = EmptyMap
    /\ linux = None
    /\ windows = None
    /\ stdin = [lines |-> <<>>, next |-> 1]
    /\ stdout = <<>>

\* run_engine starts: State::new loads the recents index; the environment the
\* process was launched in says whether GG_AGENT_ALLOW_FORCE is "1"
\* the three engines are launched together; the windows engine finds no index file
StartAll ==
    /\ pc = "start"
    /\ pc' = "read"
    /\ allow_force' = FALSE
    /\ state' = StateNew(recents_index)
    /\ before' = state'
    /\ linux' = Some([state |-> LinuxStateNew, response |-> NoResponse])
    /\ windows' = Some([state |-> WindowsStateNew(None), index_file |-> None,
                        response |-> NoResponse])
    /\ UNCHANGED <<wall, monotonic, files, recents_index, request, response, issued,
                   redeemed, edited, tracked, stdin, stdout>>

Start(allowed) ==
    /\ pc = "start"
    /\ pc' = "read"
    /\ allow_force' \in allowed
    /\ state' = StateNew(recents_index)
    /\ before' = state'
    /\ UNCHANGED <<wall, monotonic, files, recents_index, request, response, issued,
                   redeemed, edited, tracked, linux, windows, stdin, stdout>>

RequestIds == {"r1", "r2"}
UnknownMethods == {"nope.unknown", "system.Ping"}

\* a client sends any method under any id, with no params
Request(ids, methods) ==
    \E id \in ids, method \in methods :
        /\ Waiting
        /\ Step(Req(id, method, NoParams), TRUE)

(***************************************************************************)
(* run_engine over an input given in advance.  A line is blank, fails to   *)
(* decode, cannot be read, or decodes to a request [id, method] without    *)
(* params.                                                                 *)
(***************************************************************************)
Line(kind, id, method) == [kind |-> kind, id |-> id, method |-> method]

InputGiven(inputs) ==
    /\ pc = "start"
    /\ stdin.lines = <<>>
    /\ \E lines \in inputs \ {<<>>} : stdin' = [lines |-> lines, next |-> 1]
    /\ UNCHANGED <<state, wall, monotonic, files, recents_index, allow_force, pc,
                   request, response, before, issued, redeemed, edited, tracked, linux, windows,
                   stdout>>

\* the next line is of this kind
NextLine(kind) ==
    /\ Waiting
    /\ stdin.next <= Len(stdin.lines)
    /\ stdin.lines[stdin.next].kind = kind

LineRead == stdin' = [lines |-> stdin.lines, next |-> stdin.next + 1]

ReadBlank ==
    /\ NextLine("blank")
    /\ LineRead
    /\ UNCHANGED <<state, wall, monotonic, files, recents_index, allow_force, pc,
                   request, response, before, issued, redeemed, edited, tracked, linux, windows,
                   stdout>>

\* the loop gives up without an answer
ReadInvalidStops ==
    /\ NextLine("invalid")
    /\ LineRead
    /\ pc' = "done"
    /\ UNCHANGED <<state, wall, monotonic, files, recents_index, allow_force,
                   request, response, before, issued, redeemed, edited, tracked, linux, windows,
                   stdout>>

ReadInvalid ==
    /\ NextLine("invalid")
    /\ LineRead
    /\ pc' = "write"
    /\ request' = Idle
    /\ response' = failure("unknown", "invalid_request", Msg("Invalid JSON request"))
    /\ before' = state
    /\ UNCHANGED <<state, wall, monotonic, files, recents_index, allow_force,
                   issued, redeemed, edited, tracked, linux, windows, stdout>>

ReadRequest ==
    /\ NextLine("request")
    /\ LineRead
    /\ Handled(Req(stdin.lines[stdin.next].id, stdin.lines[stdin.next].method,
                   NoParams), TRUE)
    /\ UNCHANGED stdout

ReadError ==
    /\ NextLine("error")
    /\ pc' = "done"
    /\ UNCHANGED <<state, wall, monotonic, files, recents_index, allow_force,
                   request, response, before, issued, redeemed, edited, tracked, linux, windows,
                   stdin, stdout>>

EndOfInput ==
    /\ Waiting
    /\ stdin.next > Len(stdin.lines)
    /\ pc' = "done"
    /\ UNCHANGED <<state, wall, monotonic, files, recents_index, allow_force,
                   request, response, before, issued, redeemed, edited, tracked, linux, windows,
                   stdin, stdout>>

\* the inputs of at most MaxLines lines
MaxLines == 3

LoopMethods == {"capture.startDisplay", "recording.start", "nope.unknown"}

Lines ==
    {Line("blank", "", ""), Line("invalid", "", ""), Line("error", "", "")}
    \cup {Line("request", id, method) : id \in RequestIds, method \in LoopMethods}

Inputs == UNION {[1..n -> Lines] : n \in 0..MaxLines}

\* ticks of the monotonic clock in a behaviour
MaxTicks == 2

Next ==
    \/ IndexFileFound(IndexFiles)
    \/ Start(BOOLEAN)
    \/ ClockTick(MaxTicks)
    \/ CaptureStartCurrentWindow
    \/ CaptureStartWindow(WindowIdParams)
    \/ CaptureStop
    \/ RecordingStop
    \/ ExportRunCutPlan(OutputParams, PresetParams)
    \/ AgentPreflight(BudgetParams, ProviderParams, TranscriptPathParams, MaxIssued)
    \/ AgentRun(BudgetParams, ProviderParams, TranscriptPathParams, ForceParams, MaxRuns)
    \/ AgentStatus
    \/ AgentApply
    \/ CaptureStartDisplay
    \/ RecordingStart(TrackParams)
    \/ ProjectOpen(ProjectPathParams, BOOLEAN)
    \/ ProjectSave(ProjectPathParams, ZoomParams, BOOLEAN)
    \/ FilesChange({"notes.json"}, Transcripts)
    \/ Request(RequestIds, EngineMethods \cup UnknownMethods)
    \/ InputGiven(Inputs)
    \/ ReadBlank
    \/ ReadInvalid
    \/ ReadRequest
    \/ ReadError
    \/ EndOfInput
    \/ WriteResponse
    \/ WallClockChange(WallInstants)

Spec == Init /\ [][Next]_vars

(***************************************************************************)
(* The preflight gate: the requests that make a session ready, the two     *)
(* gate methods and the clock, with one token issued.                      *)
(***************************************************************************)
GateMaxIssued == 1
GateMaxRuns == 1

GateNext ==
    \/ Start(BOOLEAN)
    \/ ProjectOpen(ProjectPathParams, {TRUE})
    \/ CaptureStartDisplay
    \/ RecordingStart({None})
    \/ AgentPreflight(BudgetParams, ProviderParams, TranscriptPathParams, GateMaxIssued)
    \/ AgentRun(BudgetParams, ProviderParams, TranscriptPathParams, ForceParams, GateMaxRuns)
    \/ WriteResponse
    \/ WallClockChange(WallInstants)

GateSpec == Init /\ [][GateNext]_vars

(***************************************************************************)
(* Two tokens: one project, the transcript that covers every beat, two     *)
(* calls of agent.preflight that issue a token.                            *)
(***************************************************************************)
TokenMaxIssued == 2
TokenMaxRuns == 1

TokenNext ==
    \/ Start({FALSE})
    \/ ProjectOpen({Some("/w/alpha.gglass")}, {TRUE})
    \/ CaptureStartDisplay
    \/ RecordingStart({None})
    \/ AgentPreflight(BudgetParams, {Some("imported_transcript")},
                      {Some("all.json")}, TokenMaxIssued)
    \/ AgentRun(BudgetParams, {Some("imported_transcript")},
                {Some("all.json")}, {None}, TokenMaxRuns)
    \/ WriteResponse
    \/ WallClockChange(WallInstants)

TokenSpec == Init /\ [][TokenNext]_vars

(***************************************************************************)
(* Applying a run: runs that pass and runs that are blocked, applied with  *)
(* and without unsaved changes.                                            *)
(***************************************************************************)
ApplyMaxIssued == 2
ApplyMaxRuns == 2
\* the clock stays within the life of a token
ApplyInstants == {now \in WallInstants : now.seconds <= PREFLIGHT_TOKEN_TTL_SECONDS}

ApplyNext ==
    \/ Start(BOOLEAN)
    \/ ProjectOpen({Some("/w/alpha.gglass")}, {TRUE})
    \/ CaptureStartDisplay
    \/ RecordingStart({None})
    \/ AgentPreflight({None}, {Some("imported_transcript")},
                      TranscriptPathParams \ {None}, ApplyMaxIssued)
    \/ AgentRun({None}, {Some("imported_transcript")},
                TranscriptPathParams \ {None}, ForceParams, ApplyMaxRuns)
    \/ AgentApply
    \/ ProjectSave({None, Some("/w/alpha.gglass")}, {None}, {TRUE})
    \/ WriteResponse
    \/ WallClockChange(ApplyInstants)

ApplySpec == Init /\ [][ApplyNext]_vars

(***************************************************************************)
(* Stored runs: runs that pass and runs that are blocked, then read by     *)
(* agent.status, applied and exported.                                     *)
(***************************************************************************)
RunsMaxIssued == 2
RunsMaxRuns == 2

RunsNext ==
    \/ Start({FALSE})
    \/ ProjectOpen({Some("/w/alpha.gglass")}, {TRUE})
    \/ CaptureStartDisplay
    \/ RecordingStart({None})
    \/ RecordingStop
    \/ AgentPreflight({None}, {Some("imported_transcript")},
                      TranscriptPathParams \ {None}, RunsMaxIssued)
    \/ AgentRun({None}, {Some("imported_transcript")},
                TranscriptPathParams \ {None}, {None}, RunsMaxRuns)
    \/ AgentStatus
    \/ AgentApply
    \/ ExportRunCutPlan(OutputParams, PresetParams)
    \/ WriteResponse
    \/ WallClockChange(ApplyInstants)

RunsSpec == Init /\ [][RunsNext]_vars

(***************************************************************************)
(* Capture and recording: every capture and recording request, with the    *)
(* monotonic clock ticking between them.                                   *)
(***************************************************************************)
CaptureMaxTicks == 2

CaptureNext ==
    \/ Start({FALSE})
    \/ ClockTick(CaptureMaxTicks)
    \/ CaptureStartDisplay
    \/ CaptureStartCurrentWindow
    \/ CaptureStartWindow(WindowIdParams)
    \/ CaptureStop
    \/ RecordingStart(TrackParams)
    \/ RecordingStop
    \/ ProjectSave({None}, {None}, {TRUE})
    \/ WriteResponse

CaptureSpec == Init /\ [][CaptureNext]_vars

(***************************************************************************)
(* The recents index: the file found at start-up, then projects opened and *)
(* saved, with writes of the index that succeed and writes that fail.      *)
(***************************************************************************)
RecentsPathParams == {None, Some(""), Some("/w/alpha.gglass"), Some("/w/beta.gglass")}

RecentsNext ==
    \/ IndexFileFound(IndexFiles)
    \/ Start({FALSE})
    \/ ProjectOpen(RecentsPathParams, BOOLEAN)
    \/ ProjectSave(RecentsPathParams, {None}, BOOLEAN)
    \/ WriteResponse
    \/ WallClockChange(ApplyInstants)

RecentsSpec == Init /\ [][RecentsNext]_vars

(***************************************************************************)
(* The dispatcher: every method of the registry and two names outside it,  *)
(* under two request ids, in the sessions that a project, a capture, a     *)
(* recording, a preflight and a run make.                                  *)
(***************************************************************************)
DispatchMaxIssued == 1
DispatchMaxRuns == 1

DispatchNext ==
    \/ Start({FALSE})
    \/ Request(RequestIds, EngineMethods \cup UnknownMethods)
    \/ ProjectOpen({Some("/w/alpha.gglass")}, {TRUE})
    \/ AgentPreflight({None}, {Some("imported_transcript")}, {Some("all.json")},
                      DispatchMaxIssued)
    \/ AgentRun({None}, {Some("imported_transcript")}, {Some("all.json")}, {None},
                DispatchMaxRuns)
    \/ AgentStatus
    \/ WriteResponse

DispatchSpec == Init /\ [][DispatchNext]_vars

(***************************************************************************)
(* Transcripts: agent.preflight and agent.run over a transcript file that  *)
(* the user rewrites, with every budget, provider and path, in sessions    *)
(* with and without a project and a recording.                             *)
(***************************************************************************)
TranscriptMaxIssued == 1
TranscriptMaxRuns == 1

TranscriptBudgets == {None, Some(0), Some(5), Some(11)}
TranscriptProviders == {None, Some("imported_transcript"), Some("whisper")}
TranscriptPaths == {None, Some(""), Some("notes.json")}

TranscriptNext ==
    \/ Start({FALSE})
    \/ FilesChange({"notes.json"}, Transcripts)
    \/ ProjectOpen({Some("/w/alpha.gglass")}, {TRUE})
    \/ CaptureStartDisplay
    \/ RecordingStart({None})
    \/ AgentPreflight(TranscriptBudgets, TranscriptProviders, TranscriptPaths,
                      TranscriptMaxIssued)
    \/ AgentRun(TranscriptBudgets, TranscriptProviders, TranscriptPaths, {None},
                TranscriptMaxRuns)
    \/ WriteResponse

TranscriptSpec == Init /\ [][TranscriptNext]_vars

(***************************************************************************)
(* The three engines side by side: the methods they share, with window ids *)
(* that are and are not a u64, input tracking on and off, two project      *)
(* paths and auto-zoom settings inside and outside their ranges.           *)
(***************************************************************************)
VariantsMaxTicks == 1
VariantZooms ==
    {None,
     Some([isEnabled |-> Some(TRUE), intensity |-> Some(30000),
           minimumKeyframeInterval |-> Some(0)]),
     Some([isEnabled |-> None, intensity |-> Some(-2500),
           minimumKeyframeInterval |-> Some(3000)])}

VariantsNext ==
    \/ StartAll
    \/ ClockTick(VariantsMaxTicks)
    \/ CaptureStartDisplay
    \/ CaptureStartWindow(WindowIdParams)
    \/ CaptureStop
    \/ RecordingStart(TrackParams)
    \/ RecordingStop
    \/ ProjectOpen(ProjectPathParams, {TRUE})
    \/ ProjectSave({None, Some("/w/alpha.gglass")}, VariantZooms, {TRUE})
    \/ WriteResponse

VariantsSpec == Init /\ [][VariantsNext]_vars

(***************************************************************************)
(* Drift between issue and run: the project is opened under two paths and  *)
(* the transcript file is rewritten while a token is outstanding, and the  *)
(* wall clock passes the life of the token.                                *)
(***************************************************************************)
DriftMaxIssued == 1
DriftMaxRuns == 1
\* what notes.json may hold: not JSON, no usable entry, all four beats, all
\* four beats among unusable entries, the hook alone
DriftTranscripts ==
    {None, TranscriptUnusable, TranscriptAllBeats, TranscriptMixed, TranscriptHookOnly}

DriftNext ==
    \/ Start({FALSE})
    \/ FilesChange({"notes.json"}, DriftTranscripts)
    \/ ProjectOpen(ProjectPathParams \ {None}, {TRUE})
    \/ CaptureStartDisplay
    \/ RecordingStart({None})
    \/ AgentPreflight({None}, {Some("imported_transcript")}, {Some("notes.json")},
                      DriftMaxIssued)
    \/ AgentRun({None}, {Some("imported_transcript")}, {Some("notes.json")}, {None},
                DriftMaxRuns)
    \/ WriteResponse
    \/ WallClockChange(WallInstants)

DriftSpec == Init /\ [][DriftNext]_vars

(***************************************************************************)
(* Unsaved changes: runs, recording stops and applies between opening and  *)
(* saving the project, with opens and saves that fail for want of a path.  *)
(***************************************************************************)
UnsavedMaxIssued == 1
UnsavedMaxRuns == 1

UnsavedNext ==
    \/ Start({FALSE})
    \/ ProjectOpen({None, Some("/w/alpha.gglass")}, {TRUE})
    \/ ProjectSave({None, Some("/w/alpha.gglass")}, {None}, {TRUE})
    \/ CaptureStartDisplay
    \/ RecordingStart({None})
    \/ RecordingStop
    \/ AgentPreflight({None}, {Some("imported_transcript")},
                      TranscriptPathParams \ {None}, UnsavedMaxIssued)
    \/ AgentRun({None}, {Some("imported_transcript")},
                TranscriptPathParams \ {None}, {None}, UnsavedMaxRuns)
    \/ AgentApply
    \/ WriteResponse
    \/ WallClockChange(ApplyInstants)

UnsavedSpec == Init /\ [][UnsavedNext]_vars

(***************************************************************************)
(* Refusals: every method without params under a second id, and the agent, *)
(* export and project requests with the params that make them fail and     *)
(* succeed, with the opt-in for force not set and tokens that expire.      *)
(***************************************************************************)
ErrorMaxIssued == 1
ErrorMaxRuns == 1

ErrorNext ==
    \/ Start({FALSE})
    \/ Request({"r2"}, EngineMethods \cup UnknownMethods)
    \/ ProjectOpen({None, Some("/w/alpha.gglass")}, {TRUE})
    \/ AgentPreflight({None}, {Some("imported_transcript")},
                      TranscriptPathParams \ {None}, ErrorMaxIssued)
    \/ AgentRun(BudgetParams, {Some("imported_transcript")},
                TranscriptPathParams \ {None}, ForceParams, ErrorMaxRuns)
    \/ AgentStatus
    \/ AgentApply
    \/ ExportRunCutPlan(OutputParams, PresetParams)
    \/ WriteResponse
    \/ WallClockChange(WallInstants)

ErrorSpec == Init /\ [][ErrorNext]_vars

(***************************************************************************)
(* The auto-zoom configuration: project.save with every autoZoom object,   *)
(* and every other method in between.                                      *)
(***************************************************************************)
ZoomNext ==
    \/ Start({FALSE})
    \/ ProjectSave({None, Some("/w/alpha.gglass")}, ZoomParams, {TRUE})
    \/ Request({"r2"}, EngineMethods)
    \/ WriteResponse

ZoomSpec == Init /\ [][ZoomNext]_vars

(***************************************************************************)
(* The request loop over every input of at most MaxLines lines.  The loop  *)
(* is sequential code: it takes its next step as long as it has one.       *)
(***************************************************************************)
LoopNext ==
    \/ InputGiven(Inputs)
    \/ Start({FALSE})
    \/ ReadBlank
    \/ ReadInvalid
    \/ ReadRequest
    \/ ReadError
    \/ EndOfInput
    \/ WriteResponse

LoopSpec == Init /\ [][LoopNext]_vars /\ WF_vars(LoopNext)

(***************************************************************************)
(* What an answered request looked like: the request, the session before   *)
(* and after it, the answer.  All of these are read in the state reached   *)
(* by the handler, before the answer is written.                           *)
(***************************************************************************)
RunAnswered == pc = "write" /\ request.method = "agent.run"
PreflightAnswered == pc = "write" /\ request.method = "agent.preflight"

PresentedToken == UnwrapOr(request.params.preflightToken, EmptyString)
TokenStored == PresentedToken \in DOMAIN before.preflight_sessions
StoredSession == before.preflight_sessions[PresentedToken]
TokenAge == wall.seconds - StoredSession.created_at_unix_seconds

SuppliedBudget == UnwrapOr(request.params.runtimeBudgetMinutes, 10)
SuppliedProvider ==
    IF request.params.transcriptionProvider = Some("imported_transcript")
    THEN "imported_transcript"
    ELSE "none"
SuppliedTranscript == UnwrapOr(request.params.importedTranscriptPath, "")

SameBudget == StoredSession.runtime_budget_minutes = SuppliedBudget
SameProvider == StoredSession.transcription_provider = SuppliedProvider
SameTranscript == StoredSession.imported_transcript_path = SuppliedTranscript
SameProject == StoredSession.project_path = before.project_path
SameRecording == StoredSession.recording_url = before.recording_url
SnapshotIsLive ==
    SameBudget /\ SameProvider /\ SameTranscript /\ SameProject /\ SameRecording

TokenValid == TokenStored /\ TokenAge <= 60 /\ SnapshotIsLive

Rejected(code) == ~response.ok /\ response.code = code /\ response.result = None
TokenEvicted ==
    state.preflight_sessions = MapRemove(before.preflight_sessions, PresentedToken)

(***************************************************************************)
(* C1: a run record is added only by an agent.run whose token names a      *)
(* stored session that is at most 60 seconds old and whose snapshot equals *)
(* the live budget, provider, transcript path, project path and recording  *)
(* location; any other agent.run is answered invalid_params and leaves     *)
(* agent_runs as it was; there are never more run records than tokens      *)
(* issued.                                                                 *)
(***************************************************************************)
C1_RunOnlyThroughGate ==
    /\ state.agent_runs /= before.agent_runs => RunAnswered /\ TokenValid
    /\ RunAnswered /\ ~TokenValid =>
           Rejected("invalid_params") /\ state.agent_runs = before.agent_runs
    /\ Cardinality(DOMAIN state.agent_runs) <= Len(issued)

C1_Witness ==
    /\ RunAnswered /\ TokenValid /\ response.ok
    /\ Cardinality(DOMAIN state.agent_runs) =
           Cardinality(DOMAIN before.agent_runs) + 1

(***************************************************************************)
(* C3: an agent.run presenting a stored token older than 60 seconds is     *)
(* answered invalid_params, the session is removed and no run is stored; a *)
(* token of age 60 or less is never answered "expired".                    *)
(***************************************************************************)
C3_ExpiryAfterTtl ==
    RunAnswered /\ TokenStored =>
        /\ TokenAge > 60 =>
               /\ Rejected("invalid_params")
               /\ TokenEvicted
               /\ state.agent_runs = before.agent_runs
        /\ TokenAge <= 60 => response.message.text /= MsgTokenExpired

C3_Witness ==
    /\ RunAnswered /\ TokenStored /\ TokenAge > 60 /\ SnapshotIsLive
    /\ response.message.text = MsgTokenExpired
    /\ PresentedToken \notin DOMAIN state.preflight_sessions

(***************************************************************************)
(* C4: an agent.run presenting a stored, unexpired token is answered       *)
(* invalid_params and the token is evicted whenever the budget, provider,  *)
(* transcript path, project path or recording location differs from the    *)
(* snapshot; no run is stored.                                             *)
(***************************************************************************)
C4_DriftRejected ==
    RunAnswered /\ TokenStored /\ TokenAge <= 60 /\ ~SnapshotIsLive =>
        /\ Rejected("invalid_params")
        /\ TokenEvicted
        /\ state.agent_runs = before.agent_runs

\* the project was changed after the token was issued; all else is the same
C4_Witness ==
    /\ RunAnswered /\ TokenStored /\ TokenAge <= 60
    /\ SameBudget /\ SameProvider /\ SameTranscript /\ SameRecording
    /\ ~SameProject
    /\ response.message.text = MsgTokenMismatch

(***************************************************************************)
(* C5: agent.preflight returns a token and stores a session holding the    *)
(* budget, provider, transcript path, project path, recording location and *)
(* issue time exactly when its list of blocking reasons is empty; with a   *)
(* blocking reason the token is null, ready is false and the sessions are  *)
(* unchanged; without a project and a recording the reasons include        *)
(* missing_project and missing_recording.                                  *)
(***************************************************************************)
Reasons == response.result[1].blockingReasons
ReturnedToken == response.result[1].preflightToken
HasReason(reason) == \E i \in DOMAIN Reasons : Reasons[i] = reason

C5_TokenIffNotBlocked ==
    PreflightAnswered =>
        /\ response.ok
        /\ (ReturnedToken /= None) <=> (Reasons = <<>>)
        /\ response.result[1].ready <=> (Reasons = <<>>)
        /\ before.project_path = None => HasReason("missing_project")
        /\ before.recording_url = None => HasReason("missing_recording")
        /\ Reasons /= <<>> => state = before
        /\ Reasons = <<>> =>
               /\ ReturnedToken[1] \in DOMAIN state.preflight_sessions
               /\ state.preflight_sessions[ReturnedToken[1]] =
                      [token |-> ReturnedToken[1],
                       ready |-> TRUE,
                       runtime_budget_minutes |-> SuppliedBudget,
                       transcription_provider |-> SuppliedProvider,
                       imported_transcript_path |-> SuppliedTranscript,
                       project_path |-> before.project_path,
                       recording_url |-> before.recording_url,
                       created_at_unix_seconds |-> wall.seconds]
               /\ \A token \in DOMAIN before.preflight_sessions \ {ReturnedToken[1]} :
                      /\ token \in DOMAIN state.preflight_sessions
                      /\ state.preflight_sessions[token] = before.preflight_sessions[token]

C5_Witness ==
    /\ PreflightAnswered
    /\ Reasons = <<>>
    /\ ReturnedToken /= None
    /\ ReturnedToken[1] \in DOMAIN state.preflight_sessions
    /\ before.preflight_sessions = EmptyMap

(***************************************************************************)
(* C2: after an agent.run that presents a stored token the token is no     *)
(* longer stored, whatever the answer; and every later agent.run that      *)
(* presents the same token is answered invalid_params, "missing or         *)
(* expired".                                                               *)
(***************************************************************************)
\* the presented token was redeemed by an earlier agent.run
RedeemedEarlier ==
    \E i \in 1..(Len(redeemed) - (IF TokenStored THEN 1 ELSE 0)) :
        redeemed[i] = PresentedToken

C2_EvictedOnUse ==
    RunAnswered /\ TokenStored =>
        PresentedToken \notin DOMAIN state.preflight_sessions

C2_SingleUse ==
    /\ C2_EvictedOnUse
    /\ RunAnswered /\ RedeemedEarlier =>
           /\ Rejected("invalid_params")
           /\ response.message.text = MsgTokenMissing

(***************************************************************************)
(* C6: any two successful agent.preflight calls return different tokens; a *)
(* successful agent.preflight adds one session and overwrites none.        *)
(***************************************************************************)
C6_TokensUnique ==
    /\ \A i, j \in DOMAIN issued : i /= j => issued[i] /= issued[j]
    /\ PreflightAnswered /\ ReturnedToken /= None =>
           /\ ReturnedToken[1] \notin DOMAIN before.preflight_sessions
           /\ Cardinality(DOMAIN state.preflight_sessions) =
                  Cardinality(DOMAIN before.preflight_sessions) + 1

(***************************************************************************)
(* An answered agent.apply.                                                *)
(***************************************************************************)
ApplyAnswered == pc = "write" /\ request.method = "agent.apply"
AppliedJobKnown ==
    /\ request.params.jobId /= None
    /\ request.params.jobId[1] \in DOMAIN before.agent_runs
AppliedRun == before.agent_runs[request.params.jobId[1]]
IntentGiven == request.params.destructiveIntent = Some(TRUE)

(***************************************************************************)
(* C7: agent.apply on a known job whose QA did not pass is answered        *)
(* qa_failed whatever destructiveIntent and the unsaved flag are, and the  *)
(* session is unchanged.                                                   *)
(***************************************************************************)
C7_BlockedJobNeverApplied ==
    ApplyAnswered /\ AppliedJobKnown /\ ~AppliedRun.qa_report.passed =>
        Rejected("qa_failed") /\ state = before

\* the case nearest to success: the flag is set and nothing is unsaved
C7_Witness ==
    /\ ApplyAnswered /\ AppliedJobKnown /\ ~AppliedRun.qa_report.passed
    /\ IntentGiven
    /\ ~before.unsaved_changes
    /\ response.code = "qa_failed"

(***************************************************************************)
(* C8: agent.apply on a job whose QA passed is answered needs_confirmation *)
(* exactly when there are unsaved changes and destructiveIntent is absent  *)
(* or false, and then changes nothing; with destructiveIntent=true it      *)
(* succeeds; without unsaved changes it succeeds without the flag.         *)
(***************************************************************************)
C8_ConfirmationGate ==
    ApplyAnswered /\ AppliedJobKnown /\ AppliedRun.qa_report.passed =>
        /\ Rejected("needs_confirmation") <=> (before.unsaved_changes /\ ~IntentGiven)
        /\ Rejected("needs_confirmation") => state = before
        /\ IntentGiven => response.ok
        /\ ~before.unsaved_changes => response.ok
        /\ response.ok \/ Rejected("needs_confirmation")

C8_Witness ==
    /\ ApplyAnswered /\ AppliedJobKnown /\ AppliedRun.qa_report.passed
    /\ before.unsaved_changes
    /\ request.params.destructiveIntent = None
    /\ response.code = "needs_confirmation"

(***************************************************************************)
(* C9: a successful agent.apply sets the unsaved flag and changes nothing  *)
(* else; with destructiveIntent=true on a passed job it succeeds, and a    *)
(* repetition succeeds again and leaves the session as the first call did. *)
(***************************************************************************)
C9_ApplyMarksUnsavedOnly ==
    /\ ApplyAnswered /\ response.ok =>
           state = [before EXCEPT !.unsaved_changes = TRUE]
    /\ ApplyAnswered /\ AppliedJobKnown /\ AppliedRun.qa_report.passed /\ IntentGiven =>
           /\ response.ok
           /\ HandleAgentApply(state, request, Env(TRUE)).state = state
           /\ HandleAgentApply(state, request, Env(TRUE)).response = response

\* a repetition: the flag was already set by the first call, nothing was unsaved
\* before it
C9_Witness ==
    /\ ApplyAnswered /\ AppliedJobKnown /\ AppliedRun.qa_report.passed /\ IntentGiven
    /\ response.ok
    /\ ~before.unsaved_changes
    /\ state.unsaved_changes

(***************************************************************************)
(* C10: for every stored run record: status is completed iff all four      *)
(* beats are covered iff passed iff missingBeats is empty, else blocked;   *)
(* score is the number of covered beats over 4; missingBeats lists the     *)
(* uncovered beats in the order hook, action, payoff, takeaway;            *)
(* blockingReason is null iff the run passed.                              *)
(***************************************************************************)
Uncovered(coverage, beat) == IF coverage[beat] THEN <<>> ELSE <<beat>>

RecordConsistent(run) ==
    LET coverage == run.qa_report.coverage
        all == coverage.hook /\ coverage.action /\ coverage.payoff /\ coverage.takeaway
        covered == Cardinality({beat \in DOMAIN coverage : coverage[beat]})
    IN  /\ (run.status = "completed") <=> all
        /\ run.qa_report.passed <=> all
        /\ (run.qa_report.missingBeats = <<>>) <=> all
        /\ ~all => run.status = "blocked"
        /\ run.qa_report.score = <<covered, 4>>
        /\ run.qa_report.missingBeats =
               Uncovered(coverage, "hook") \o Uncovered(coverage, "action")
                   \o Uncovered(coverage, "payoff") \o Uncovered(coverage, "takeaway")
        /\ (run.blocking_reason = None) <=> run.qa_report.passed

C10_RecordConsistent ==
    \A job \in DOMAIN state.agent_runs : RecordConsistent(state.agent_runs[job])

\* a run that passed on its transcript next to one that covers the hook alone
C10_Witness ==
    \E passed, blocked \in DOMAIN state.agent_runs :
        /\ state.agent_runs[passed].status = "completed"
        /\ state.agent_runs[blocked].status = "blocked"
        /\ state.agent_runs[blocked].qa_report.score = <<1, 4>>
        /\ state.agent_runs[blocked].qa_report.missingBeats =
               <<"action", "payoff", "takeaway">>

(***************************************************************************)
(* C11: each successful agent.run stores its record under a job id that    *)
(* was not a key of agent_runs before (the map grows by exactly one), and  *)
(* no request removes or modifies an existing record: a record stored      *)
(* under job id J stays, with the same content, in every later state.      *)
(***************************************************************************)
RunStored == RunAnswered /\ response.ok
StoredJobId == response.result[1].jobId

RecordsKept ==
    \A job \in DOMAIN before.agent_runs :
        /\ job \in DOMAIN state.agent_runs
        /\ state.agent_runs[job] = before.agent_runs[job]

C11_RunsOnlyAdded ==
    /\ RecordsKept
    /\ RunStored =>
           /\ StoredJobId \notin DOMAIN before.agent_runs
           /\ DOMAIN state.agent_runs = DOMAIN before.agent_runs \cup {StoredJobId}
           /\ Cardinality(DOMAIN state.agent_runs) =
                  Cardinality(DOMAIN before.agent_runs) + 1
           /\ state.agent_runs[StoredJobId].job_id = StoredJobId
    /\ ~RunStored => DOMAIN state.agent_runs = DOMAIN before.agent_runs

\* a second run stored at the clock reading of the first
C11_Witness ==
    /\ RunStored
    /\ \E job \in DOMAIN before.agent_runs :
           /\ job[3] = StoredJobId[3]
           /\ job[4] = StoredJobId[4]
           /\ before.agent_runs[job].status /= state.agent_runs[StoredJobId].status

(***************************************************************************)
(* C12: agent.status for a job id present in agent_runs returns that       *)
(* record's stored jobId, status, runtimeBudgetMinutes, qaReport,          *)
(* blockingReason and updatedAt unchanged; for a missing jobId parameter   *)
(* or an unknown job id it returns invalid_params; in all cases the        *)
(* session state is unchanged.                                             *)
(***************************************************************************)
StatusAnswered == pc = "write" /\ request.method = "agent.status"
AskedJobKnown ==
    /\ request.params.jobId /= None
    /\ request.params.jobId[1] \in DOMAIN before.agent_runs
AskedRun == before.agent_runs[request.params.jobId[1]]

C12_StatusVerbatim ==
    StatusAnswered =>
        /\ state = before
        /\ AskedJobKnown =>
               /\ response.ok
               /\ response.result[1].jobId = AskedRun.job_id
               /\ response.result[1].jobId = request.params.jobId[1]
               /\ response.result[1].status = AskedRun.status
               /\ response.result[1].runtimeBudgetMinutes = AskedRun.runtime_budget_minutes
               /\ response.result[1].qaReport = AskedRun.qa_report
               /\ response.result[1].blockingReason = AskedRun.blocking_reason
               /\ response.result[1].updatedAt = AskedRun.updated_at
        /\ ~AskedJobKnown => Rejected("invalid_params")

\* the status of a blocked run, asked for after the clock has moved on
C12_Witness ==
    /\ StatusAnswered /\ AskedJobKnown
    /\ AskedRun.blocking_reason /= None
    /\ response.result[1].updatedAt /= now_iso8601(wall)

(***************************************************************************)
(* C13: export.runCutPlan for a known job returns qa_failed when the job's *)
(* QA did not pass, and invalid_cut_plan when QA passed but no beat is     *)
(* covered; it succeeds only when QA passed and at least one beat is       *)
(* covered (and then it does).  A missing outputURL, presetId or jobId, or *)
(* an unknown job id, yields invalid_params.  None of these outcomes       *)
(* changes the session state.                                              *)
(***************************************************************************)
ExportAnswered == pc = "write" /\ request.method = "export.runCutPlan"
ExportedJobKnown ==
    /\ request.params.outputURL /= None
    /\ request.params.presetId /= None
    /\ request.params.jobId /= None
    /\ request.params.jobId[1] \in DOMAIN before.agent_runs
ExportedRun == before.agent_runs[request.params.jobId[1]]
CoveredBeats(run) ==
    Cardinality({beat \in {"hook", "action", "payoff", "takeaway"} :
                     run.qa_report.coverage[beat]})

C13_CutPlanExport ==
    ExportAnswered =>
        /\ state = before
        /\ ~ExportedJobKnown => Rejected("invalid_params")
        /\ ExportedJobKnown =>
               /\ ~ExportedRun.qa_report.passed => Rejected("qa_failed")
               /\ ExportedRun.qa_report.passed /\ CoveredBeats(ExportedRun) = 0
                      => Rejected("invalid_cut_plan")
               /\ response.ok <=>
                      ExportedRun.qa_report.passed /\ CoveredBeats(ExportedRun) >= 1
               /\ response.ok =>
                      response.result[1].appliedSegments = CoveredBeats(ExportedRun)

\* the export of a blocked job is refused while a completed job is stored
C13_Witness ==
    /\ ExportAnswered /\ ExportedJobKnown
    /\ Rejected("qa_failed")
    /\ CoveredBeats(ExportedRun) = 1
    /\ \E job \in DOMAIN state.agent_runs : state.agent_runs[job].status = "completed"

(***************************************************************************)
(* C14: recording.start while isRunning is false fails with invalid_params *)
(* and the message "Start capture before recording", and leaves every      *)
(* field of the session unchanged: isRecording stays false, no recording   *)
(* or events location is assigned, the duration accumulator is not         *)
(* started.                                                                *)
(***************************************************************************)
RecordingStartAnswered == pc = "write" /\ request.method = "recording.start"
AccumulatorStopped(s) == s.recording_duration.started_at_seconds = None

C14_RecordingNeedsCapture ==
    RecordingStartAnswered /\ ~before.is_running =>
        /\ Rejected("invalid_params")
        /\ response.message = Msg("Start capture before recording")
        /\ state = before
        /\ ~state.is_recording
        /\ AccumulatorStopped(state)

\* refused after an earlier recording left its locations and its duration
C14_Witness ==
    /\ RecordingStartAnswered /\ ~before.is_running
    /\ request.params.trackInputEvents = Some(TRUE)
    /\ before.recording_url /= None
    /\ before.events_url = None
    /\ before.recording_duration.accumulated_seconds > 0

(***************************************************************************)
(* C15: after capture.stop, from any reachable state, isRunning and        *)
(* isRecording are both false and the duration accumulator is stopped; the *)
(* recording location assigned by an earlier recording.start, and the      *)
(* events location assigned by an earlier recording.start with             *)
(* trackInputEvents = true, remain set after recording.stop and            *)
(* capture.stop.                                                           *)
(***************************************************************************)
CaptureStopAnswered == pc = "write" /\ request.method = "capture.stop"
RecordingStopAnswered == pc = "write" /\ request.method = "recording.stop"
LocationsKept ==
    /\ state.recording_url = before.recording_url
    /\ state.events_url = before.events_url

C15_CaptureStopClears ==
    /\ CaptureStopAnswered =>
           /\ response.ok
           /\ ~state.is_running
           /\ ~state.is_recording
           /\ AccumulatorStopped(state)
           /\ state.recording_duration.accumulated_seconds =
                  RunningDurationCurrent(before.recording_duration, monotonic)
           /\ LocationsKept
    /\ RecordingStopAnswered => LocationsKept
    /\ before.recording_url /= None => state.recording_url = before.recording_url
    /\ before.events_url /= None => state.events_url = before.events_url

\* capture.startDisplay, recording.start with trackInputEvents, recording.stop,
\* capture.stop: both flags false, both locations set
C15_Witness ==
    /\ CaptureStopAnswered
    /\ before.is_running /\ ~before.is_recording
    /\ ~state.is_running /\ ~state.is_recording
    /\ state.recording_url = Some("native://recordings/session.mp4")
    /\ state.events_url = Some("native://events/session-events.json")
    /\ state.capture_metadata = Some(DisplayMetadata)
    /\ state.recording_duration.accumulated_seconds > 0

(***************************************************************************)
(* C16: recording.stop always succeeds, stops duration accumulation, sets  *)
(* isRecording = false and marks the session dirty (unsaved changes =      *)
(* true) while leaving isRunning, the recording location and the events    *)
(* location unchanged; also when no recording is in progress.              *)
(***************************************************************************)
C16_RecordingStop ==
    RecordingStopAnswered =>
        /\ response.ok
        /\ AccumulatorStopped(state)
        /\ state.recording_duration.accumulated_seconds =
               RunningDurationCurrent(before.recording_duration, monotonic)
        /\ ~state.is_recording
        /\ state.unsaved_changes
        /\ state.is_running = before.is_running
        /\ state.recording_url = before.recording_url
        /\ state.events_url = before.events_url
        /\ state = [before EXCEPT !.recording_duration = state.recording_duration,
                                  !.is_recording = FALSE,
                                  !.unsaved_changes = TRUE]

\* no recording in progress and nothing unsaved: the session is dirty all the same
C16_Witness ==
    /\ RecordingStopAnswered
    /\ ~before.is_recording
    /\ ~before.is_running
    /\ ~before.unsaved_changes
    /\ state.unsaved_changes

(***************************************************************************)
(* C17: capture.startDisplay, capture.startWindow and                      *)
(* capture.startCurrentWindow set isRunning = true and overwrite the       *)
(* capture metadata without changing isRecording, the duration             *)
(* accumulator, the recording and events locations or the unsaved-changes  *)
(* flag; the same capture.start request issued twice in a row yields the   *)
(* same session state as issued once.                                      *)
(***************************************************************************)
CaptureStartAnswered ==
    /\ pc = "write"
    /\ request.method \in
           {"capture.startDisplay", "capture.startWindow", "capture.startCurrentWindow"}

\* the window a capture.start request names, None for the display
StartedWindow ==
    IF request.method = "capture.startDisplay" THEN None
    ELSE IF request.method = "capture.startCurrentWindow" THEN Some(101)
    ELSE IF request.params.windowId = None \/ request.params.windowId[1] < 0
    THEN Some(101)
    ELSE request.params.windowId

C17_CaptureStart ==
    CaptureStartAnswered =>
        /\ response.ok
        /\ state.is_running
        /\ state.capture_metadata /= None
        /\ state.capture_metadata[1].window = StartedWindow
        /\ state.capture_metadata[1].source =
               (IF StartedWindow = None THEN "display" ELSE "window")
        /\ state.is_recording = before.is_recording
        /\ state.recording_duration = before.recording_duration
        /\ state.recording_url = before.recording_url
        /\ state.events_url = before.events_url
        /\ state.unsaved_changes = before.unsaved_changes
        /\ state = [before EXCEPT !.is_running = TRUE,
                                  !.capture_metadata = state.capture_metadata]
        /\ handle_request(state, request, Env(TRUE)).state = state

\* a window capture started over a display capture that is being recorded
C17_Witness ==
    /\ CaptureStartAnswered
    /\ request.params.windowId = Some(7)
    /\ before.is_running /\ before.is_recording
    /\ before.capture_metadata = Some(DisplayMetadata)
    /\ state.capture_metadata = Some(WindowMetadata(7))
    /\ ~state.unsaved_changes

(***************************************************************************)
(* The recents list before and after a request that records a path:        *)
(* project.open with a path, project.save of a session that has one.       *)
(***************************************************************************)
PathRecorded ==
    /\ pc = "write"
    /\ \/ request.method = "project.open" /\ response.ok
       \/ request.method = "project.save" /\ state.project_path /= None
RecordedPath == state.project_path[1]
PathOf(item) == item.projectPath
Others(items, path) == SelectSeq(items, LAMBDA item : PathOf(item) /= Some(path))
Present(items, path) == \E i \in DOMAIN items : PathOf(items[i]) = Some(path)
Min(a, b) == IF a <= b THEN a ELSE b
FrontOf(items, n) == [i \in 1..Min(n, Len(items)) |-> items[i]]

\* the recorded path first, then the previous entries with another path, in
\* their previous order, cut to MAX_RECENT_PROJECTS entries
RecordedInFront ==
    /\ Len(state.recent_projects) >= 1
    /\ PathOf(state.recent_projects[1]) = Some(RecordedPath)
    /\ Tail(state.recent_projects) =
           FrontOf(Others(before.recent_projects, RecordedPath),
                   MAX_RECENT_PROJECTS - 1)

(***************************************************************************)
(* C18: in every reachable state, the state loaded from the persisted      *)
(* index at start-up included, the recents list has at most 20 entries.    *)
(* Recording path P (project.open, or project.save with a project path)    *)
(* yields a list with P at index 0 followed by the previous entries other  *)
(* than P in their previous relative order, truncated to 20: its length is *)
(* the previous length if P was already present, else min(20, previous     *)
(* length + 1).                                                            *)
(***************************************************************************)
C18_RecentsBounded ==
    /\ Len(state.recent_projects) <= MAX_RECENT_PROJECTS
    /\ PathRecorded =>
           /\ RecordedInFront
           /\ Len(state.recent_projects) =
                  (IF Present(before.recent_projects, RecordedPath)
                   THEN Len(before.recent_projects)
                   ELSE Min(MAX_RECENT_PROJECTS, Len(before.recent_projects) + 1))

\* the part of C18 that does not count: the bound and the order of the list
C18_FrontAndBound ==
    /\ Len(state.recent_projects) <= MAX_RECENT_PROJECTS
    /\ PathRecorded => RecordedInFront

(***************************************************************************)
(* C19: projectPath is a unique key of the recents index: in every         *)
(* reachable state, the state obtained by loading an arbitrary persisted   *)
(* index file at start-up included, no two entries of the recents list     *)
(* have the same projectPath.                                              *)
(***************************************************************************)
C19_PathsUnique ==
    \A i, j \in DOMAIN state.recent_projects :
        PathOf(state.recent_projects[i]) = PathOf(state.recent_projects[j]) => i = j

\* what does hold: a recorded path is in the list exactly once
C19_RecordedOnce ==
    PathRecorded =>
        Cardinality({i \in DOMAIN state.recent_projects :
                         PathOf(state.recent_projects[i]) = Some(RecordedPath)}) = 1

(***************************************************************************)
(* C20: loading the recents index never fails the engine: an unreadable or *)
(* unparseable index file yields an empty list; otherwise only the items   *)
(* whose projectPath, displayName and lastOpenedAt are all non-empty       *)
(* strings are retained, in file order, capped to the first 20 valid       *)
(* items.  Loading an index written by save for a list of at most 20 valid *)
(* items returns that same list.                                           *)
(***************************************************************************)
Unparseable(index_file) == index_file = None \/ index_file[1].json = None
ItemsOf(index_file) ==
    IF Unparseable(index_file) \/ index_file[1].json[1].items = None
    THEN <<>>
    ELSE index_file[1].json[1].items[1]
NonEmptyString(field, empty) == field /= None /\ field[1] /= empty
ValidItem(item) ==
    /\ NonEmptyString(item.projectPath, "")
    /\ NonEmptyString(item.displayName, "")
    /\ NonEmptyString(item.lastOpenedAt, <<>>)
ValidIndices(items) == {i \in DOMAIN items : ValidItem(items[i])}
\* the position among the valid items of the item at index i
Rank(items, i) == Cardinality({j \in ValidIndices(items) : j <= i})
FirstValid(list, items) ==
    /\ Len(list) = Min(MAX_RECENT_PROJECTS, Cardinality(ValidIndices(items)))
    /\ \A k \in DOMAIN list :
           \E i \in ValidIndices(items) : Rank(items, i) = k /\ list[k] = items[i]

\* no path has been recorded since the session was built from the index file
JustLoaded == pc /= "start" /\ state.project_path = None
Saved(items) == save_recent_projects(None, items, TRUE)

C20_LoadFiltersAndCaps ==
    /\ JustLoaded =>
           /\ Unparseable(recents_index) => state.recent_projects = <<>>
           /\ FirstValid(state.recent_projects, ItemsOf(recents_index))
    /\ (\A i \in DOMAIN state.recent_projects : ValidItem(state.recent_projects[i]))
           => load_recent_projects(Saved(state.recent_projects)) = state.recent_projects

\* a file with invalid items among more valid ones than the cap
C20_Witness ==
    /\ JustLoaded
    /\ Len(ItemsOf(recents_index)) > MAX_RECENT_PROJECTS
    /\ Cardinality(ValidIndices(ItemsOf(recents_index))) < Len(ItemsOf(recents_index))
    /\ Len(state.recent_projects) = MAX_RECENT_PROJECTS
    /\ state.recent_projects[2] = ItemsOf(recents_index)[3]

(***************************************************************************)
(* C21: recents persistence is best-effort: when writing the index file    *)
(* fails, project.open and project.save still return a success response    *)
(* and the in-memory recents list is still updated (the persisted index    *)
(* may then lag behind memory); when the write succeeds the persisted      *)
(* index equals the complete in-memory list.                               *)
(***************************************************************************)
RecordingAnswer(method) ==
    /\ pc = "read" /\ pc' = "write"
    /\ request'.method = method
    /\ method = "project.open" => request'.params.projectPath /= None
    /\ method = "project.save" => state'.project_path /= None

\* the file after the request: the whole list, or the file as it was
WrittenOrKept ==
    \/ recents_index' = Some(to_string(state'.recent_projects))
    \/ recents_index' = recents_index

RecordedAnyway ==
    /\ response'.ok
    /\ Len(state'.recent_projects) >= 1
    /\ PathOf(state'.recent_projects[1]) = state'.project_path
    /\ Tail(state'.recent_projects) =
           FrontOf(Others(state.recent_projects, state'.project_path[1]),
                   MAX_RECENT_PROJECTS - 1)

C21_BestEffortIndex ==
    [][\A method \in {"project.open", "project.save"} :
           RecordingAnswer(method) => RecordedAnyway /\ WrittenOrKept]_vars

\* a path was recorded and answered with success while the file is missing
C21_Witness ==
    /\ PathRecorded
    /\ response.ok
    /\ recents_index = None
    /\ Len(state.recent_projects) = 2

(***************************************************************************)
(* The dispatcher and the request loop.                                    *)
(***************************************************************************)
\* a decoded request has been handled and its answer is about to be written
Dispatched == pc = "write" /\ request /= Idle

\* C22: a request whose method is not in the registry is answered with an
\* unsupported_method error that carries the request's id and the raw method
\* string in its message, and the session is as it was before the request.
C22_UnsupportedMethod ==
    (Dispatched /\ request.method \notin EngineMethods) =>
        /\ Rejected("unsupported_method")
        /\ response.message.text = "Unsupported method: "
        /\ response.message.arg = <<request.method>>
        /\ response.id = request.id
        /\ state = before

C22_Witness ==
    /\ Dispatched
    /\ request.method = "nope.unknown"
    /\ request.id = "r2"
    /\ response.code = "unsupported_method"
    /\ state.is_running
    /\ state.project_path /= None

\* what a Success carries, and what an Error carries
IsSuccess(answer) == answer.ok /\ answer.result /= None /\ answer.code = ""
IsError(answer) == ~answer.ok /\ answer.result = None /\ answer.code /= ""

\* C23: the answer to a decoded request is a Success or an Error, never both
\* and never neither, and it carries the request's id, whatever the method
\* and the session.
C23_OneResponse ==
    Dispatched =>
        /\ response.id = request.id
        /\ IsSuccess(response) /= IsError(response)

C23_Witness ==
    /\ Dispatched
    /\ request.id = "r2"
    /\ request.method = "agent.apply"
    /\ IsError(response)
    /\ DOMAIN state.agent_runs /= {}

\* the answers the dispatcher gives to the lines, each request in the session
\* the lines before it left
RECURSIVE Answers(_, _, _)
Answers(lines, s, env) ==
    IF lines = <<>> \/ Head(lines).kind = "error"
    THEN <<>>
    ELSE CASE Head(lines).kind = "blank" -> Answers(Tail(lines), s, env)
           [] Head(lines).kind = "invalid" ->
                  <<failure("unknown", "invalid_request", Msg("Invalid JSON request"))>>
                  \o Answers(Tail(lines), s, env)
           [] OTHER ->
                  LET done == handle_request(s, Req(Head(lines).id, Head(lines).method,
                                                    NoParams), env)
                  IN  <<done.response>> \o Answers(Tail(lines), done.state, env)

\* the lines read so far that were not blank
Answerable == {k \in 1..(stdin.next - 1) : stdin.lines[k].kind /= "blank"}

OnePerLine == pc \in {"read", "done"} => Len(stdout) = Cardinality(Answerable)

InvalidAnswered == pc = "write" /\ request = Idle

InvalidHarmless ==
    InvalidAnswered =>
        /\ Rejected("invalid_request")
        /\ response.id = "unknown"
        /\ state = before

LoopDone ==
    /\ pc = "done"
    /\ stdin.next > Len(stdin.lines) \/ stdin.lines[stdin.next].kind = "error"
    /\ stdout = Answers(stdin.lines, StateNew(recents_index), Env(TRUE))

\* C24: over every input the loop ends, at the end of the input or at a line
\* that cannot be read, and by then it has written one answer per line that
\* was not blank, in the order of the lines: invalid_request under the id
\* unknown for a line that does not decode, with the session as it was, and
\* the dispatcher's answer for every other line.
C24_LoopAnswersEveryLine ==
    /\ [](OnePerLine /\ InvalidHarmless)
    /\ <>[]LoopDone

C24_Witness ==
    /\ pc = "done"
    /\ Len(stdin.lines) = 3
    /\ stdin.lines[1] = Line("request", "r1", "capture.startDisplay")
    /\ stdin.lines[2].kind = "invalid"
    /\ stdin.lines[3] = Line("request", "r2", "recording.start")
    /\ Len(stdout) = 3
    /\ stdout[2].id = "unknown"
    /\ stdout[3].id = "r2" /\ stdout[3].ok

(***************************************************************************)
(* The auto-zoom configuration, in units of 0.0001.                        *)
(***************************************************************************)
SaveAnswered == pc = "write" /\ request.method = "project.save"

ZoomOf(s) ==
    [isEnabled |-> s.auto_zoom_enabled, intensity |-> s.auto_zoom_intensity,
     minimumKeyframeInterval |-> s.auto_zoom_min_keyframe_interval]

ZoomInRange(s) ==
    /\ s.auto_zoom_intensity >= 0
    /\ s.auto_zoom_intensity <= 10000
    /\ s.auto_zoom_min_keyframe_interval >= 1

\* the value a field gets: the previous one when the field is not supplied
Supplied(field, previous) ==
    IF request.params.autoZoom = None \/ request.params.autoZoom[1][field] = None
    THEN previous
    ELSE request.params.autoZoom[1][field][1]

\* C25: the auto-zoom intensity is always within [0, 1] and the minimum
\* keyframe interval always at least 0.0001; project.save stores a supplied
\* intensity cut to [0, 1] and a supplied interval raised to 0.0001, keeps the
\* previous value of a field that is not supplied, and no other request
\* changes the configuration.
C25_AutoZoomClamped ==
    /\ ZoomInRange(state)
    /\ SaveAnswered =>
        /\ state.auto_zoom_enabled = Supplied("isEnabled", before.auto_zoom_enabled)
        /\ state.auto_zoom_intensity =
               Min(Max(Supplied("intensity", before.auto_zoom_intensity), 0), 10000)
        /\ state.auto_zoom_min_keyframe_interval =
               Max(Supplied("minimumKeyframeInterval",
                            before.auto_zoom_min_keyframe_interval), 1)
    /\ (pc = "write" /\ ~SaveAnswered) => ZoomOf(state) = ZoomOf(before)

C25_Witness ==
    /\ SaveAnswered
    /\ request.params.autoZoom =
           Some([isEnabled |-> None, intensity |-> Some(30000),
                 minimumKeyframeInterval |-> Some(0)])
    /\ state.auto_zoom_intensity = 10000
    /\ state.auto_zoom_min_keyframe_interval = 1
    /\ before.auto_zoom_enabled /\ state.auto_zoom_enabled
    /\ before.auto_zoom_intensity = 0

(***************************************************************************)
(* Transcripts.  The file a request names is read here as it is on disk    *)
(* while the request is handled; no handler writes it.                     *)
(***************************************************************************)
NamedFile ==
    IF SuppliedTranscript \in DOMAIN files THEN files[SuppliedTranscript] ELSE None

\* the entries of the segments or the words array, none without the array
EntriesOf(array) ==
    IF NamedFile = None \/ NamedFile[1][array] = None THEN <<>> ELSE NamedFile[1][array][1]

Blank(text) == \A i \in DOMAIN text : text[i] = " "

\* an entry with text that is not blank and end > start >= 0
Usable(entry, key) ==
    /\ entry[key] /= None /\ ~Blank(entry[key][1])
    /\ entry.start /= None /\ entry.end /= None
    /\ entry.start[1] >= 0
    /\ entry.end[1] > entry.start[1]

UsableTexts ==
    {EntriesOf("segments")[i].text[1] :
        i \in {j \in DOMAIN EntriesOf("segments") : Usable(EntriesOf("segments")[j], "text")}}
    \cup
    {EntriesOf("words")[i].word[1] :
        i \in {j \in DOMAIN EntriesOf("words") : Usable(EntriesOf("words")[j], "word")}}

\* the lowercased alphanumeric tokens of the usable entries
Spoken ==
    UNION {{to_lowercase(text[i]) : i \in DOMAIN text} : text \in UsableTexts}
        \ {" ", "!", "-"}

KeywordsOf(beat) ==
    CASE beat = "hook" -> {"hook", "intro", "opening"}
      [] beat = "action" -> {"action", "step", "steps", "process"}
      [] beat = "payoff" -> {"payoff", "result", "outcome"}
      [] beat = "takeaway" -> {"takeaway", "lesson", "conclusion"}

Spans(beat) == KeywordsOf(beat) \cap Spoken /= {}
Spanned == {beat \in {"hook", "action", "payoff", "takeaway"} : Spans(beat)}

\* a stored run judged on its transcript
TranscriptRun ==
    /\ RunStored
    /\ SuppliedProvider = "imported_transcript"
    /\ request.params.force \in {None, Some(FALSE)}

JudgedRun == state.agent_runs[StoredJobId]

\* C26: a run judged on its transcript marks a beat covered exactly when the
\* lowercased alphanumeric tokens of the usable segments and words hold a
\* keyword of the beat; all four beats give a completed run that passed with
\* score 1.0, the hook alone gives a blocked run that misses action, payoff
\* and takeaway with the reason weak_narrative_structure.
C26_CoverageByKeywords ==
    TranscriptRun =>
        /\ \A beat \in DOMAIN JudgedRun.qa_report.coverage :
               JudgedRun.qa_report.coverage[beat] <=> Spans(beat)
        /\ DOMAIN JudgedRun.qa_report.coverage = {"hook", "action", "payoff", "takeaway"}
        /\ Cardinality(Spanned) = 4 =>
               /\ JudgedRun.status = "completed"
               /\ JudgedRun.qa_report.passed
               /\ JudgedRun.qa_report.score = <<4, 4>>
        /\ Spanned = {"hook"} =>
               /\ JudgedRun.status = "blocked"
               /\ JudgedRun.qa_report.missingBeats = <<"action", "payoff", "takeaway">>
               /\ JudgedRun.blocking_reason = Some("weak_narrative_structure")

C26_Witness ==
    /\ TranscriptRun
    /\ NamedFile = TranscriptSynonyms
    /\ JudgedRun.status = "completed"
    /\ JudgedRun.qa_report.score = <<4, 4>>

\* the hook-only case of C26 is reached as well
C26_HookOnlyReached ==
    /\ TranscriptRun
    /\ NamedFile = TranscriptMixedHook
    /\ JudgedRun.qa_report.missingBeats = <<"action", "payoff", "takeaway">>

When(condition, reason) == IF condition THEN <<reason>> ELSE <<>>

\* the provider check: the reason it gives, none when it passes
ProviderReason ==
    IF SuppliedProvider /= "imported_transcript" THEN <<"missing_local_model">>
    ELSE IF SuppliedTranscript = "" THEN <<"missing_imported_transcript">>
    ELSE When(UsableTexts = {}, "invalid_imported_transcript")

\* C27: the blocking reasons of agent.preflight are, in this order,
\* invalid_runtime_budget iff the budget (10 when absent) is outside 1..10,
\* missing_project iff no project is open, missing_recording iff there is no
\* recording location, and the one reason of the provider check iff it
\* fails: missing_local_model for a provider other than imported_transcript,
\* missing_imported_transcript for an empty path, invalid_imported_transcript
\* for a file the check rejects (one without a usable segment or word).  Each
\* is there whatever the others are, and the list depends on nothing but the
\* params, the session and the file.
C27_BlockingReasons ==
    PreflightAnswered =>
        Reasons =
            When(SuppliedBudget < 1 \/ SuppliedBudget > 10, "invalid_runtime_budget")
            \o When(before.project_path = None, "missing_project")
            \o When(before.recording_url = None, "missing_recording")
            \o ProviderReason

C27_Witness ==
    /\ PreflightAnswered
    /\ request.params.runtimeBudgetMinutes = Some(11)
    /\ before.project_path /= None
    /\ before.recording_url = None
    /\ NamedFile = TranscriptUnusable
    /\ Reasons = <<"invalid_runtime_budget", "missing_recording",
                   "invalid_imported_transcript">>

\* every segment and every word of the file is usable, and there is one
EveryEntryUsable ==
    /\ NamedFile /= None
    /\ Len(EntriesOf("segments")) + Len(EntriesOf("words")) > 0
    /\ \A i \in DOMAIN EntriesOf("segments") : Usable(EntriesOf("segments")[i], "text")
    /\ \A i \in DOMAIN EntriesOf("words") : Usable(EntriesOf("words")[i], "word")

\* C28: agent.preflight with the provider imported_transcript and a path
\* takes the file as valid only if it is not empty and every segment and
\* every word has text that is not empty and end > start >= 0; for any other
\* file it reports invalid_imported_transcript, is not ready and issues no
\* token.
C28_EveryEntryValid ==
    (/\ PreflightAnswered
     /\ SuppliedProvider = "imported_transcript"
     /\ SuppliedTranscript /= ""
     /\ ~EveryEntryUsable) =>
        /\ HasReason("invalid_imported_transcript")
        /\ ~response.result[1].ready
        /\ ReturnedToken = None

\* C30: a run judged on its transcript that does not cover all four beats
\* has the reason empty_transcript, and no beat covered, exactly when the
\* transcript gives no token at all (no usable segment or word, or only text
\* without an alphanumeric character), and weak_narrative_structure
\* otherwise.
C30_EmptyOrWeak ==
    (TranscriptRun /\ Cardinality(Spanned) < 4) =>
        /\ Spoken = {} =>
               /\ JudgedRun.blocking_reason = Some("empty_transcript")
               /\ JudgedRun.qa_report.coverage = AllBeats(FALSE)
        /\ Spoken /= {} =>
               JudgedRun.blocking_reason = Some("weak_narrative_structure")

C30_Witness ==
    /\ TranscriptRun
    /\ NamedFile = TranscriptPunctuation
    /\ JudgedRun.blocking_reason = Some("empty_transcript")
    /\ JudgedRun.qa_report.missingBeats = <<"hook", "action", "payoff", "takeaway">>

\* the other cases of C30: the file lost its usable entries after the
\* preflight, and a transcript with tokens but no keyword
C30_UnusableReached ==
    /\ TranscriptRun
    /\ UsableTexts = {}
    /\ JudgedRun.blocking_reason = Some("empty_transcript")

C30_OffTopicReached ==
    /\ TranscriptRun
    /\ NamedFile = TranscriptOffTopic
    /\ Spanned = {}
    /\ JudgedRun.blocking_reason = Some("weak_narrative_structure")

\* no run passes validation with a provider other than imported_transcript:
\* a session is stored only for a ready evaluation, whose provider is
\* imported_transcript, and validation compares the providers
DurationBranchUnreached == RunStored => SuppliedProvider = "imported_transcript"

\* a ready session gets a token for a file with usable and unusable entries
C28_MixedFileAccepted ==
    /\ PreflightAnswered
    /\ NamedFile = TranscriptMixed
    /\ ReturnedToken /= None

(***************************************************************************)
(* The force flag.                                                         *)
(***************************************************************************)
ForcedRun == RunAnswered /\ request.params.force = Some(TRUE)

MsgForceDisabled ==
    Msg("force is disabled for production runs. Set GG_AGENT_ALLOW_FORCE=1 for local debugging.")

RunsKept == state.agent_runs = before.agent_runs

\* C31: an agent.run with force = true stores a run, completed with all four
\* beats covered, only when the opt-in is set and the token is valid; with a
\* valid token and no opt-in it fails with invalid_params and stores no run;
\* with a token that is not valid it fails on the token, whatever the opt-in.
C31_ForceNeedsOptIn ==
    ForcedRun =>
        /\ response.ok <=> (TokenValid /\ allow_force)
        /\ response.ok =>
               /\ JudgedRun.qa_report.coverage = AllBeats(TRUE)
               /\ JudgedRun.status = "completed"
               /\ DOMAIN state.agent_runs = DOMAIN before.agent_runs \cup {StoredJobId}
        /\ ~response.ok => Rejected("invalid_params") /\ RunsKept
        /\ (TokenValid /\ ~allow_force) => response.message = MsgForceDisabled
        /\ ~TokenValid =>
               response.message \in
                   {Msg(MsgTokenRequired), Msg(MsgTokenMissing), Msg(MsgTokenExpired),
                    Msg(MsgTokenMismatch)}

\* forced through on the transcript that covers the hook alone
C31_Witness ==
    /\ ForcedRun
    /\ response.ok
    /\ allow_force
    /\ SuppliedTranscript = "hook.json"
    /\ JudgedRun.status = "completed"

\* the other two cases of C31 are reached: a valid token without the opt-in,
\* and the opt-in without a valid token
C31_RefusedReached ==
    ForcedRun /\ TokenValid /\ ~allow_force /\ ~response.ok /\ TokenEvicted

C31_TokenFirstReached ==
    ForcedRun /\ allow_force /\ ~TokenValid /\ ~response.ok

(***************************************************************************)
(* Preflight sessions over a step.                                         *)
(***************************************************************************)
\* the step is the handling of an agent.run that presents this token
Redeems(token) ==
    /\ pc' = "write"
    /\ request'.method = "agent.run"
    /\ UnwrapOr(request'.params.preflightToken, EmptyString) = token

SessionKept(token) ==
    /\ token \in DOMAIN state'.preflight_sessions
    /\ state'.preflight_sessions[token] = state.preflight_sessions[token]

\* C32: a stored session is removed or altered by nothing but an agent.run
\* that presents its token: agent.preflight only adds sessions, the passing
\* of time removes none, and the sessions of other tokens stay as they are
\* when a token is issued or redeemed.
C32_LazyEviction ==
    [][\A token \in DOMAIN state.preflight_sessions :
           SessionKept(token) \/ Redeems(token)]_vars

\* what holds: a token leaves the sessions only when it is presented
C32_RemovedOnlyOnUse ==
    [][\A token \in DOMAIN state.preflight_sessions :
           token \in DOMAIN state'.preflight_sessions \/ Redeems(token)]_vars

\* a session past its life that is still stored
C32_ExpiredKeptReached ==
    \E token \in DOMAIN state.preflight_sessions :
        wall.seconds - state.preflight_sessions[token].created_at_unix_seconds
            > PREFLIGHT_TOKEN_TTL_SECONDS

(***************************************************************************)
(* The duration accumulator.  monotonic is the capture clock's reading; a  *)
(* handler reads it once.                                                  *)
(***************************************************************************)
\* the time in flight of an accumulator at the clock's reading
InFlight(d) ==
    IF d.started_at_seconds = None THEN 0
    ELSE IF monotonic - d.started_at_seconds[1] > 0
         THEN monotonic - d.started_at_seconds[1] ELSE 0

\* the duration the session reports at the clock's reading
Reported(s) == s.recording_duration.accumulated_seconds + InFlight(s.recording_duration)

Started == pc = "write" /\ request.method = "recording.start" /\ response.ok
Stopped == pc = "write" /\ request.method \in {"recording.stop", "capture.stop"}

\* C33: start takes the clock as startedAt only when the accumulator is not
\* running and leaves a running one as it is; stop adds max(0, now -
\* startedAt) to accumulated and clears startedAt, and changes nothing when
\* not running; the current duration is accumulated + max(0, now -
\* startedAt) while running and accumulated otherwise; nothing else touches
\* the accumulator.
C33_AccumulatorReference ==
    pc = "write" =>
        /\ Started =>
               state.recording_duration =
                   (IF before.recording_duration.started_at_seconds = None
                    THEN [accumulated_seconds |->
                              before.recording_duration.accumulated_seconds,
                          started_at_seconds |-> Some(monotonic)]
                    ELSE before.recording_duration)
        /\ Stopped =>
               state.recording_duration =
                   [accumulated_seconds |->
                        before.recording_duration.accumulated_seconds
                            + InFlight(before.recording_duration),
                    started_at_seconds |-> None]
        /\ (~Started /\ ~Stopped) => state.recording_duration = before.recording_duration
        /\ (Started \/ Stopped) =>
               response.result[1].recordingDurationSeconds = Reported(state)

\* a second recording.start, later, while the first recording runs
C33_Witness ==
    /\ Started
    /\ before.is_recording
    /\ before.recording_duration.started_at_seconds = Some(0)
    /\ monotonic = 2
    /\ state.recording_duration.started_at_seconds = Some(0)
    /\ response.result[1].recordingDurationSeconds = 2

\* C34: the reported recording duration is never negative and never goes
\* down from one state to the next; it stays as it is from a state that is
\* not recording, and the accumulated total is never reset, so a later
\* recording goes on from the total of the earlier ones.
C34_DurationMonotone ==
    [][/\ Reported(state) >= 0
       /\ Reported(state)' >= Reported(state)
       /\ ~state.is_recording => Reported(state)' = Reported(state)
       /\ state'.recording_duration.accumulated_seconds
              >= state.recording_duration.accumulated_seconds]_vars

\* a second recording in flight on top of the total of the first
C34_Witness ==
    /\ state.is_recording
    /\ state.recording_duration.accumulated_seconds = 1
    /\ state.recording_duration.started_at_seconds = Some(1)
    /\ monotonic = 2
    /\ Reported(state) = 2

\* C35: in every state isRecording implies isRunning, and the accumulator
\* is running exactly when isRecording is true.
C35_RecordingFlags ==
    /\ state.is_recording => state.is_running
    /\ (state.recording_duration.started_at_seconds /= None) <=> state.is_recording

\* recording has been stopped by capture.stop
C35_Witness ==
    /\ CaptureStopAnswered
    /\ before.is_recording /\ before.is_running
    /\ ~state.is_recording /\ ~state.is_running
    /\ state.recording_duration.started_at_seconds = None

(***************************************************************************)
(* What a stored preflight session holds.                                  *)
(***************************************************************************)
ReadySession(session) ==
    /\ session.ready
    /\ session.runtime_budget_minutes >= 1
    /\ session.runtime_budget_minutes <= 10
    /\ session.transcription_provider = "imported_transcript"
    /\ session.imported_transcript_path /= ""
    /\ session.project_path /= None
    /\ session.recording_url /= None

\* C36: every stored preflight session is ready, with a budget in 1..10, the
\* provider imported_transcript, a transcript path that is not empty, a
\* project path and a recording location; so every agent.run that stores a
\* run has the provider imported_transcript, and without force its coverage
\* is the one of its transcript.
C36_SessionsReady ==
    /\ \A token \in DOMAIN state.preflight_sessions :
           ReadySession(state.preflight_sessions[token])
    /\ RunStored =>
           /\ SuppliedProvider = "imported_transcript"
           /\ ReadySession(before.preflight_sessions[PresentedToken])
           /\ request.params.force \in {None, Some(FALSE)} =>
                  \A beat \in {"hook", "action", "payoff", "takeaway"} :
                      JudgedRun.qa_report.coverage[beat] <=> Spans(beat)

\* a run on a session with a budget of its own
C36_Witness ==
    /\ RunStored
    /\ before.preflight_sessions[PresentedToken].runtime_budget_minutes = 5
    /\ before.preflight_sessions[PresentedToken].imported_transcript_path = "notes.json"
    /\ JudgedRun.qa_report.coverage = AllBeats(TRUE)

(***************************************************************************)
(* Refused requests.                                                       *)
(***************************************************************************)
Refused == pc = "write" /\ ~response.ok

\* the session before the request, without the session of the presented token
TokenConsumed ==
    [before EXCEPT !.preflight_sessions = MapRemove(@, PresentedToken)]

\* C37: a request answered with an Error leaves the session as it was; only
\* agent.run may have removed the preflight session of the token it
\* presented, and nothing else: no run is stored and the session is not
\* marked unsaved.
C37_ErrorsChangeNothing ==
    Refused =>
        IF request.method = "agent.run"
        THEN state = before \/ state = TokenConsumed
        ELSE state = before

\* force without the opt-in: the token is gone, nothing else has changed
C37_Witness ==
    /\ Refused
    /\ request.method = "agent.run"
    /\ response.message = MsgForceDisabled
    /\ TokenStored
    /\ state = TokenConsumed
    /\ state /= before
    /\ ~state.unsaved_changes

\* a refusal of another method in a session that holds a token and a run
C37_ApplyRefusedReached ==
    /\ Refused
    /\ request.method = "agent.apply"
    /\ response.code = "needs_confirmation"
    /\ state = before

C37_BlockedRefusedReached ==
    /\ Refused
    /\ request.method \in {"agent.apply", "export.runCutPlan"}
    /\ response.code = "qa_failed"
    /\ state = before

(***************************************************************************)
(* C38: the unsaved-changes flag is true exactly when a successful         *)
(* agent.run (its record completed or blocked), a recording.stop or a      *)
(* successful agent.apply came after the last successful project.open or   *)
(* project.save, so only those two reset it; and an agent.apply without    *)
(* destructiveIntent on a job whose QA passed is answered                  *)
(* needs_confirmation exactly when no open or save came after the most     *)
(* recent of those edits.                                                  *)
(***************************************************************************)
\* this step answers an agent.apply without destructiveIntent on a completed job
PlainApplyStep ==
    /\ pc' = "write" /\ request'.method = "agent.apply"
    /\ request'.params.jobId /= None
    /\ request'.params.jobId[1] \in DOMAIN state.agent_runs
    /\ state.agent_runs[request'.params.jobId[1]].qa_report.passed
    /\ request'.params.destructiveIntent /= Some(TRUE)

NeedsConfirmation(resp) == ~resp.ok /\ resp.code = "needs_confirmation"

C38_UnsavedFollowsEdits ==
    /\ [](state.unsaved_changes = edited)
    /\ [][PlainApplyStep => (NeedsConfirmation(response') <=> edited)]_vars

\* a run was stored, the project saved after it, and the plain apply went through
C38_Witness ==
    /\ ApplyAnswered /\ AppliedJobKnown /\ AppliedRun.qa_report.passed
    /\ ~IntentGiven
    /\ ~before.unsaved_changes
    /\ response.ok
    /\ state.unsaved_changes /\ edited

\* a blocked run was stored and left the flag set
C38_BlockedRunReached ==
    /\ RunAnswered /\ response.ok
    /\ ~state.agent_runs[StoredJobId].qa_report.passed
    /\ ~before.unsaved_changes /\ state.unsaved_changes

\* the plain apply is refused after a run that no save followed
C38_RefusedReached ==
    /\ ApplyAnswered /\ AppliedJobKnown /\ AppliedRun.qa_report.passed
    /\ ~IntentGiven
    /\ Rejected("needs_confirmation")

\* a project.open without a path fails and resets nothing
C38_FailedOpenReached ==
    /\ pc = "write" /\ request.method = "project.open" /\ ~response.ok
    /\ state.unsaved_changes

\* a project.save without a path and with no project open succeeds and resets the flag
C38_PathlessSaveReached ==
    /\ pc = "write" /\ request.method = "project.save" /\ response.ok
    /\ state.project_path = None
    /\ before.unsaved_changes /\ ~state.unsaved_changes

(***************************************************************************)
(* C39: validation compares the current values with the snapshot and does  *)
(* not judge readiness again. (a) A stored token at most 60 seconds old    *)
(* whose params are the ones it was issued for is accepted although the    *)
(* open project differed from the snapshot in between, once it is the same *)
(* again. (b) When the transcript file, well formed when the token was     *)
(* issued, is unreadable or not well formed at the agent.run, the token is *)
(* accepted and the run is stored blocked, no beat covered, with the       *)
(* reason empty_transcript.                                                *)
(***************************************************************************)
EntriesIn(file, array) ==
    IF file = None \/ file[1][array] = None THEN <<>> ELSE file[1][array][1]

\* not empty, and every segment and every word has text and end > start >= 0
WellFormed(file) ==
    /\ file /= None
    /\ Len(EntriesIn(file, "segments")) + Len(EntriesIn(file, "words")) > 0
    /\ \A i \in DOMAIN EntriesIn(file, "segments") :
           Usable(EntriesIn(file, "segments")[i], "text")
    /\ \A i \in DOMAIN EntriesIn(file, "words") :
           Usable(EntriesIn(file, "words")[i], "word")

\* what was remembered of the presented token before this agent.run
Remembered == tracked[PresentedToken]

LiveToken == RunAnswered /\ TokenStored /\ TokenAge <= 60 /\ SnapshotIsLive
Accepted == response.ok /\ StoredJobId \in DOMAIN state.agent_runs
BlockedEmpty ==
    /\ JudgedRun.status = "blocked"
    /\ JudgedRun.qa_report.coverage = AllBeats(FALSE)
    /\ JudgedRun.blocking_reason = Some("empty_transcript")

C39_CurrentValuesOnly ==
    LiveToken =>
        /\ Remembered.strayed => Accepted
        /\ (WellFormed(Remembered.file) /\ ~WellFormed(NamedFile)) =>
               Accepted /\ BlockedEmpty

\* (a) alone
C39_StrayedAccepted == (LiveToken /\ Remembered.strayed) => Accepted

\* (b) for the files the validity check of agent.preflight rejects: unreadable,
\* not JSON, or without a usable segment or word
C39_RejectedFileBlocked ==
    (LiveToken /\ WellFormed(Remembered.file) /\ UsableTexts = {}) =>
        Accepted /\ BlockedEmpty

\* the project went away and came back, and the run was stored
C39_StrayedReached == LiveToken /\ Remembered.strayed /\ Accepted

\* the file lost its usable entries after the token was issued
C39_RejectedFileReached ==
    /\ LiveToken /\ WellFormed(Remembered.file) /\ UsableTexts = {}
    /\ Accepted /\ BlockedEmpty

\* the file was rewritten with usable and unusable entries, and the run passed
C39_MixedFileCompleted ==
    /\ LiveToken /\ WellFormed(Remembered.file) /\ ~WellFormed(NamedFile)
    /\ Accepted /\ JudgedRun.status = "completed"

(***************************************************************************)
(* C40: run side by side on the same requests from the methods they share, *)
(* linux-native, windows-native and native-foundation give each request    *)
(* the same outcome (success, or the same error code) and keep the same    *)
(* isRunning, isRecording, recording location, events location, project    *)
(* path and auto-zoom settings.                                            *)
(***************************************************************************)
SharedFields(s) ==
    [isRunning |-> s.is_running,
     isRecording |-> s.is_recording,
     recordingURL |-> s.recording_url,
     eventsURL |-> s.events_url,
     projectPath |-> s.project_path,
     autoZoom |-> <<s.auto_zoom_enabled, s.auto_zoom_intensity,
                    s.auto_zoom_min_keyframe_interval>>]

Outcome(resp) == <<resp.ok, resp.code>>

SideBySide == linux /= None /\ windows /= None
SharedAnswered == SideBySide /\ pc = "write" /\ request.method \in SharedMethods

C40_VariantsAgree ==
    SideBySide =>
        /\ SharedFields(linux[1].state) = SharedFields(state)
        /\ SharedFields(windows[1].state) = SharedFields(state)
        /\ SharedAnswered =>
               /\ Outcome(linux[1].response) = Outcome(response)
               /\ Outcome(windows[1].response) = Outcome(response)
               /\ linux[1].response.id = request.id
               /\ windows[1].response.id = request.id

\* a project.save during a recording with input tracking, naming a project
\* and auto-zoom settings outside their ranges
C40_Witness ==
    /\ SharedAnswered /\ request.method = "project.save"
    /\ request.params.autoZoom /= None
    /\ response.ok /\ linux[1].response.ok /\ windows[1].response.ok
    /\ state.is_recording /\ state.events_url /= None
    /\ state.project_path /= None
    /\ state.auto_zoom_intensity = 10000
    /\ linux[1].state.auto_zoom_intensity = 10000
    /\ windows[1].state.auto_zoom_min_keyframe_interval = 1

\* the three refuse a recording.start without a capture
C40_RefusedReached ==
    /\ SharedAnswered /\ request.method = "recording.start"
    /\ Outcome(response) = <<FALSE, "invalid_params">>
    /\ Outcome(linux[1].response) = <<FALSE, "invalid_params">>
    /\ Outcome(windows[1].response) = <<FALSE, "invalid_params">>

\* a capture.startWindow with a windowId that is not a u64 starts the capture
\* in all three; linux-native keeps no window id
C40_WindowReached ==
    /\ SharedAnswered /\ request.method = "capture.startWindow"
    /\ request.params.windowId = Some(-1)
    /\ response.ok /\ linux[1].response.ok /\ windows[1].response.ok
    /\ linux[1].state.capture_metadata /= state.capture_metadata
    /\ windows[1].state.capture_metadata = state.capture_metadata

====
